---- MODULE Spec2Model ----
(***************************************************************************)
(* The school application's grading and attendance workflows              *)
(* (schoolApp/views.py, forms.py, models.py) as a state machine over the   *)
(* database tables.  One action per view; every action is the whole       *)
(* request, from the role check to the response, database writes and      *)
(* transaction rollback included.                                          *)
(***************************************************************************)
EXTENDS Integers, Sequences, FiniteSets, TLC

(***************************************************************************)
(* Bounds of the model.                                                    *)
(***************************************************************************)
\* largest max_score an assignment is given (Assignment.max_score is any
\* non-negative integer)
MaxScoreVal == 2
\* most forms a batch POST carries (the management form's TOTAL_FORMS)
MaxRows == 2
\* last tick of the clock that stamps auto_now_add fields
MaxTime == 1
\* the highest primary key a Question row gets
MaxQuestionId == 4
\* most rows the Subject table, and the Class table, come to hold
MaxSlugRows == 3

(***************************************************************************)
(* The seeded database: user accounts, classes, students, assignments.     *)
(* They are created through the admin site; the views below find them.    *)
(***************************************************************************)
Teachers == {"t1", "t2"}
StudentUsers == {"u1", "u2"}
Parents == {"p1", "p2"}
Classes == {"k1", "k2"}
\* the academic terms, and those with is_current set
Terms == {"term1"}
CurrentTerms == {"term1"}
StudentIds == {"s1", "s2"}
\* a primary key no Student row has
GhostStudent == "s9"
\* the one date attendance is taken for
Dates == {"d1"}
NoUser == "nobody"
\* Assignment.due_date left empty
NoDate == "no date"
\* the worker processes of the web server, each serving one request at a time
Workers == {"w1", "w2"}
\* a worker between requests
Idle == [line |-> "idle"]

\* Attendance.ATTENDANCE_STATUS_CHOICES
ATTENDANCE_STATUS_CHOICES == {"P", "A", "L", "E"}
\* Attendance.status default
StatusDefault == "P"

VARIABLES
    students,      \* Student rows: [id, user, current_class, parent]
    assignments,   \* Assignment rows: [id, _class, recorded_by, assignment_type,
                   \*                   max_score, term, due_date, subject]
    scores,        \* Score rows: [id, student, assignment, score_achieved, recorded_by]
    submissions,   \* Submission rows: [id, assignment, student, submission_text, is_graded]
    attendances,   \* Attendance rows: [id, student, date, _class, status, recorded_by, timestamp]
    questions,     \* Question rows: [id, assignment, points]
    choices,       \* Choice rows: [question, number, is_correct]
    student_answers,  \* StudentAnswer rows: [id, submission, question, chosen_choice,
                      \*                      is_correct, points_awarded]
    now,           \* the clock
    inflight,      \* the requests being served side by side, by worker: the
                   \* request, the line it has reached and its open transaction
    subjects,      \* Subject rows: [id, name, slug]
    classes,       \* Class rows: [id, name, slug]
    users,         \* the usernames of the User rows
    teachers,      \* Teacher rows: [user]
    request,       \* the request last served: view, user, target and its payload
    response       \* its response: [status, message]

vars ==
    <<students, assignments, scores, submissions, attendances, questions, choices,
      student_answers, now, request, response, inflight, subjects, classes, users,
      teachers>>
\* the tables the grading and attendance views leave alone
directory == <<subjects, classes, users, teachers>>
tables ==
    <<students, assignments, scores, submissions, attendances, questions, choices,
      student_answers>>

(***************************************************************************)
(* Database helpers.                                                       *)
(***************************************************************************)
Max(S) == CHOOSE x \in S : \A y \in S : y <= x

\* the primary key the database gives the next row of a table
NextId(table) == IF table = {} THEN 1 ELSE Max({r.id : r \in table}) + 1

\* Score.Meta.unique_together = ('student', 'assignment'): an INSERT that
\* repeats the pair raises IntegrityError
ScoreUniqueOk(table, student, assignment) ==
    ~ \E r \in table : r.student = student /\ r.assignment = assignment

\* Score.score_achieved = DecimalField(max_digits=5, decimal_places=2): the
\* database layer quantizes the value to two places within five digits, and
\* raises decimal.InvalidOperation for a value that needs more
ScoreMaxDigits == 5
ScoreDecimalPlaces == 2
ScoreFieldLimit == 10 ^ (ScoreMaxDigits - ScoreDecimalPlaces)
ScoreFieldHolds(value) == value < ScoreFieldLimit /\ value > -ScoreFieldLimit

\* Score.objects.create
ScoreCreate(table, student, assignment, value, user) ==
    table \cup {[id |-> NextId(table), student |-> student, assignment |-> assignment,
                 score_achieved |-> value, recorded_by |-> user]}

\* get_object_or_404(Assignment, id=assignment_id, recorded_by=request.user)
OwnedAssignments(assignment_id, user) ==
    {a \in assignments : a.id = assignment_id /\ a.recorded_by = user}

\* get_object_or_404(Student, pk=student_id)
StudentsByPk(student_id) == {s \in students : s.id = student_id}

Resp(status, message) == [status |-> status, message |-> message]
\* a rendered page: the response with the template context
Page(message, context) == [status |-> 200, message |-> message, context |-> context]

\* is_teacher, is_parent, is_student (views.py 20-30)
is_teacher(user) == user \in Teachers
is_parent(user) == user \in Parents
is_student(user) == user \in StudentUsers
\* @login_required and @user_passes_test on a user who fails the test: a
\* redirect to the login page, with no message
RedirectToLogin == Resp(302, "login")

(***************************************************************************)
(* What a request carries.                                                 *)
(***************************************************************************)
\* the numbers a client sends as a score: below 0, the range, above it, and
\* the first number the score column cannot hold
ScoreInputs == (-1) .. (MaxScoreVal + 1) \cup {ScoreFieldLimit}
\* the numbers a teacher types as max_score: below 0, small ones, and one
\* that lets a score reach the limit of the score column
MaxScoreInputs == (-1) .. MaxScoreVal \cup {ScoreFieldLimit}
\* the JSON body of save_scores_ajax: not JSON at all, a field missing, a
\* score that float() refuses, or a student id with a number
AjaxBodies ==
    {[kind |-> k, student_id |-> "s1", score_achieved |-> 0] :
        k \in {"bad_json", "missing_field", "not_a_number"}}
    \cup {[kind |-> "numeric", student_id |-> sid, score_achieved |-> v] :
        sid \in StudentIds \cup {GhostStudent}, v \in ScoreInputs}
\* the texts a student hands in
Texts == {"essay1", "essay2"}
NoFacts == {}

Req(view, user, target, payload, facts) ==
    [view |-> view, user |-> user, target |-> target, payload |-> payload, facts |-> facts]

(***************************************************************************)
(* save_scores_ajax (views.py 453-503)                                     *)
(***************************************************************************)
\* the range test of lines 481-484, on the float of the submitted score
ScoreInRange(score_achieved, max_score) ==
    ~ (score_achieved < 0) /\ ~ (score_achieved > max_score)

\* Score.objects.update_or_create(assignment=, student=, defaults={...}):
\* the one matching row is updated in place, or a row is created
ScoreUpdateOrCreate_AlwaysCreate(table, student, assignment, value, user) ==
    ScoreCreate(table, student, assignment, value, user)
ScoreUpdateOrCreate(table, student, assignment, value, user) ==
    LET hit == {r \in table : r.student = student /\ r.assignment = assignment}
    IN  IF hit = {}
        THEN ScoreCreate(table, student, assignment, value, user)
        ELSE {IF r \in hit
              THEN [r EXCEPT !.score_achieved = value, !.recorded_by = user]
              ELSE r : r \in table}

\* Submission.objects.filter(assignment=, student=).first()
SubmissionsOf(assignment_id, student_id) ==
    {b \in submissions : b.assignment = assignment_id /\ b.student = student_id}

\* The try block of the view, lines 462-503: the tables and the response
\* it leaves.
SaveScoresAjaxSaved(user, assignment, body) ==
    LET keep(status, message) ==
            [scores |-> scores, submissions |-> submissions,
             response |-> Resp(status, message)]
        found == StudentsByPk(body.student_id)
        existing == SubmissionsOf(assignment.id, body.student_id)
        multiple == Cardinality({r \in scores : r.student = body.student_id
                                    /\ r.assignment = assignment.id}) > 1
    IN  IF body.kind = "bad_json"
          THEN keep(400, "invalid_json")
        ELSE IF body.kind = "missing_field"
          THEN keep(400, "missing_student_id_or_score")
        ELSE IF body.kind = "not_a_number"
          THEN keep(400, "invalid_score_format")
        ELSE IF found = {}
          \* Http404 is caught by `except Exception`
          THEN keep(500, "unexpected_error")
        ELSE IF \E b \in existing : b.is_graded
          THEN keep(400, "already_graded")
        ELSE IF body.score_achieved < 0
          THEN keep(400, "score_negative")
        ELSE IF ~ ScoreInRange(body.score_achieved, assignment.max_score)
          THEN keep(400, "score_exceeds_max")
        ELSE IF multiple
          \* MultipleObjectsReturned, caught by `except Exception`
          THEN keep(500, "unexpected_error")
        ELSE IF ~ ScoreFieldHolds(body.score_achieved)
          \* decimal.InvalidOperation on save, caught by `except Exception`
          THEN keep(500, "unexpected_error")
        ELSE [scores |-> ScoreUpdateOrCreate(scores, body.student_id, assignment.id,
                                             body.score_achieved, user),
              submissions |-> {IF b \in existing THEN [b EXCEPT !.is_graded = TRUE]
                               ELSE b : b \in submissions},
              response |-> Resp(200, "score_saved")]

\* The body of the view after the ownership lookup, lines 459-503: an MCQ
\* assignment is turned away before the request body is read.
SaveScoresAjaxResult_GradesMcq(user, assignment, body) ==
    SaveScoresAjaxSaved(user, assignment, body)
SaveScoresAjaxResult(user, assignment, body) ==
    IF assignment.assignment_type = "mcq"
    THEN [scores |-> scores, submissions |-> submissions,
          response |-> Resp(400, "mcq_graded_automatically")]
    ELSE SaveScoresAjaxSaved(user, assignment, body)

save_scores_ajax(user, assignment_id, body) ==
    LET owned == OwnedAssignments(assignment_id, user)
    IN  /\ request' = Req("save_scores_ajax", user, assignment_id, body, NoFacts)
        /\ IF ~ is_teacher(user) \/ owned = {}
           THEN /\ response' = IF is_teacher(user) THEN Resp(404, "not_found")
                                ELSE RedirectToLogin
                /\ UNCHANGED <<scores, submissions>>
           ELSE LET res == SaveScoresAjaxResult(user, CHOOSE a \in owned : TRUE, body)
                IN  /\ scores' = res.scores
                    /\ submissions' = res.submissions
                    /\ response' = res.response
        /\ UNCHANGED <<students, assignments, attendances, questions, choices,
                      student_answers, now, inflight, directory>>

(***************************************************************************)
(* update_assignment (views.py 196-218)                                    *)
(***************************************************************************)
\* AssignmentForm's max_score field: PositiveIntegerField, so min_value 0
AssignmentFormIsValid(max_score) == max_score >= 0

update_assignment(user, assignment_id, max_score) ==
    LET owned == OwnedAssignments(assignment_id, user)
    IN  /\ request' = Req("update_assignment", user, assignment_id, max_score, NoFacts)
        /\ IF ~ is_teacher(user) \/ owned = {}
           THEN /\ response' = IF is_teacher(user) THEN Resp(404, "not_found")
                                ELSE RedirectToLogin
                /\ UNCHANGED assignments
           ELSE IF AssignmentFormIsValid(max_score)
           THEN /\ assignments' = {IF a \in owned THEN [a EXCEPT !.max_score = max_score]
                                   ELSE a : a \in assignments}
                /\ response' = Resp(302, "assignment_updated")
           ELSE /\ response' = Resp(200, "error_updating_assignment")
                /\ UNCHANGED assignments
        /\ UNCHANGED <<students, scores, submissions, attendances, questions, choices,
                      student_answers, now, inflight, directory>>

(***************************************************************************)
(* input_scores (views.py 381-450) with ScoreForm (forms.py 54-86)         *)
(***************************************************************************)
\* One posted form of the score formset: the hidden student field and the
\* score_achieved input, <<>> when it is left blank.
Blank == <<>>
ScoreRowsOver(values) ==
    {[student |-> sid, score_achieved |-> v] :
        sid \in StudentIds, v \in {Blank} \cup {<<x>> : x \in values}}

\* The student of the instance a ScoreForm is built around.  The formset
\* passes no instance, so ModelForm builds Score(): the set is empty.
ScoreFormInstanceStudent == {}

\* ScoreForm.__init__ (forms.py 69-75) reads self.instance.student; on an
\* instance without a student the non-null foreign key raises
\* RelatedObjectDoesNotExist.
ScoreFormInitRaises == ScoreFormInstanceStudent = {}

\* The assignment ScoreForm.clean_score_achieved finds in cleaned_data:
\* Meta.fields is ['id', 'student', 'score_achieved'], so there is none.
ScoreFormCleanedAssignment(assignment) == {}

\* ScoreForm.clean_score_achieved (forms.py 77-86): TRUE when it raises
ScoreRangeError(score_achieved, cleaned_assignment) ==
    \E a \in cleaned_assignment :
        score_achieved < 0 \/ score_achieved > a.max_score

\* form.is_valid() of one ScoreForm: student and score_achieved are
\* required fields, then clean_score_achieved
ScoreFormIsValid(row, assignment) ==
    /\ StudentsByPk(row.student) # {}
    /\ row.score_achieved # Blank
    /\ ~ ScoreRangeError(row.score_achieved[1], ScoreFormCleanedAssignment(assignment))

\* formset.is_valid(): every form is valid
ScoreFormSetIsValid(rows, assignment) ==
    \A i \in 1 .. Len(rows) : ScoreFormIsValid(rows[i], assignment)

\* The write loop of lines 409-427 on a prefix of the forms, had the student
\* lookup succeeded: 'id' is no field of the form (an AutoField has no form
\* field), so score_id is None and every row is an INSERT.  "failed" is set
\* by the IntegrityError of a repeated (student, assignment).
RECURSIVE ScoreRowsWritten(_, _, _, _)
ScoreRowsWritten(table, rows, assignment, user) ==
    IF rows = <<>> THEN [table |-> table, failed |-> FALSE]
    ELSE LET row == Head(rows) IN
         IF ~ ScoreUniqueOk(table, row.student, assignment.id)
         THEN [table |-> table, failed |-> TRUE]
         ELSE ScoreRowsWritten(
                  ScoreCreate(table, row.student, assignment.id,
                              row.score_achieved[1], user),
                  Tail(rows), assignment, user)

\* A variant that saves each valid form on its own, without the formset.
InputScoresResult_SavesValidRows(user, assignment, rows) ==
    LET valid == SelectSeq(rows, LAMBDA row :
                     /\ ScoreFormIsValid(row, assignment)
                     /\ ScoreUniqueOk(scores, row.student, assignment.id))
        first == IF valid = <<>> THEN <<>> ELSE <<Head(valid)>>
    IN  [scores |-> ScoreRowsWritten(scores, first, assignment, user).table,
         response |-> Resp(302, "scores_updated")]

\* The POST branch after the ownership lookup: the Score table and the
\* response it leaves.
InputScoresResult(user, assignment, rows) ==
    LET keep(status, message) == [scores |-> scores, response |-> Resp(status, message)]
    IN  IF assignment.assignment_type = "mcq"
          THEN keep(302, "mcq_scores_not_editable")
        ELSE IF rows = <<>>
          \* no form to build or validate: the empty formset is valid
          THEN keep(302, "scores_updated")
        ELSE IF ScoreFormInitRaises
          \* formset.is_valid() builds the forms; the exception is not caught
          THEN keep(500, "RelatedObjectDoesNotExist")
        ELSE IF ~ ScoreFormSetIsValid(rows, assignment)
          THEN keep(200, "correct_the_errors")
        \* get_object_or_404(Student, pk=student_id) is given the Student
        \* that ModelChoiceField cleaned the field to, not a number: the
        \* lookup raises TypeError inside transaction.atomic()
        ELSE keep(500, "TypeError")

\* What the batch holds, against the database it meets.
InputScoresFacts(assignment, rows) ==
    LET idx == 1 .. Len(rows)
        num(i) == rows[i].score_achieved # Blank
        val(i) == rows[i].score_achieved[1]
    IN  (IF \E i \in idx : num(i) /\ (val(i) < 0 \/ val(i) > assignment.max_score)
         THEN {"row_out_of_range"} ELSE {})
        \cup (IF \E i \in idx : ~ num(i) THEN {"row_blank"} ELSE {})
        \cup (IF \E i \in idx : num(i) /\ \E r \in scores :
                    /\ r.student = rows[i].student
                    /\ r.assignment = assignment.id
                    /\ r.score_achieved # val(i)
              THEN {"row_rescores"} ELSE {})

input_scores(user, assignment_id, rows) ==
    LET owned == OwnedAssignments(assignment_id, user)
    IN  /\ IF ~ is_teacher(user) \/ owned = {}
           THEN /\ request' = Req("input_scores", user, assignment_id, Len(rows), NoFacts)
                /\ response' = IF is_teacher(user) THEN Resp(404, "not_found")
                                ELSE RedirectToLogin
                /\ UNCHANGED scores
           ELSE LET assignment == CHOOSE a \in owned : TRUE
                    res == InputScoresResult(user, assignment, rows)
                IN  /\ request' = Req("input_scores", user, assignment_id, Len(rows),
                                      InputScoresFacts(assignment, rows))
                    /\ scores' = res.scores
                    /\ response' = res.response
        /\ UNCHANGED <<students, assignments, submissions, attendances, questions, choices,
                      student_answers, now, inflight, directory>>

(***************************************************************************)
(* Attendance: AttendanceForm and BaseAttendanceFormSet (forms.py 90-204), *)
(* mark_attendance and save_attendance_ajax (views.py 522-649)             *)
(***************************************************************************)
\* Student.objects.filter(current_class=...).order_by('last_name', 'first_name')
StudentOrder == <<"s1", "s2">>
StudentsInClass(class) ==
    SelectSeq(StudentOrder,
              LAMBDA sid : \E s \in students : s.id = sid /\ s.current_class = class)

\* Attendance.Meta.unique_together = ('student', 'date', '_class')
AttendanceUniqueOk_NoConstraint(table, student, date, class) == TRUE
AttendanceUniqueOk(table, student, date, class) ==
    ~ \E r \in table : r.student = student /\ r.date = date /\ r._class = class

\* Attendance.objects.create(...); timestamp is auto_now_add
AttendanceCreate(table, student, date, class, status, user) ==
    table \cup {[id |-> NextId(table), student |-> student, date |-> date,
                 _class |-> class, status |-> status, recorded_by |-> user,
                 timestamp |-> now]}

\* One posted form: the hidden student field ("" when absent) and the
\* status select.  The read-only student_name is sent back as displayed.
AttendanceRowsOver(sids, statuses) ==
    {[student |-> sid, status |-> st] : sid \in sids, st \in statuses}

\* BaseAttendanceFormSet.__init__ (forms.py 146-174).  The views pass the
\* POST data positionally, so kwargs.get('data') is None and the initial
\* list is built from the database on a POST as well: one entry per student
\* of the class, with the stored status and "marked" when a row exists.
RECURSIVE AttendanceInitialOver(_, _, _)
AttendanceInitialOver(order, class, date) ==
    IF order = <<>> THEN <<>>
    ELSE LET stored == {r \in attendances : r.student = Head(order) /\ r.date = date
                                             /\ r._class = class}
             entry == IF stored = {}
                      THEN [student |-> Head(order), status |-> StatusDefault,
                            marked |-> FALSE]
                      ELSE [student |-> Head(order),
                            status |-> (CHOOSE r \in stored : TRUE).status,
                            marked |-> TRUE]
         IN  <<entry>> \o AttendanceInitialOver(Tail(order), class, date)
AttendanceInitial(class, date) ==
    AttendanceInitialOver(StudentsInClass(class), class, date)

\* _construct_form (forms.py 178-197): the form at position i takes the
\* initial entry at i; past the list it has no initial, and the status
\* field falls back to the model default.
AttendanceFormInitial(initial, i) ==
    IF i <= Len(initial) THEN initial[i]
    ELSE [student |-> "", status |-> StatusDefault, marked |-> FALSE]

\* forms past the management form's INITIAL_FORMS may be empty, and so may
\* every form of an already marked student (forms.py 194-195)
AttendanceEmptyPermitted(initial, initial_forms, i) ==
    AttendanceFormInitial(initial, i).marked \/ i > initial_forms

\* form.has_changed(): a posted field differs from the form's initial
AttendanceHasChanged(initial, i, row) ==
    \/ row.student # AttendanceFormInitial(initial, i).student
    \/ row.status # AttendanceFormInitial(initial, i).status

\* full_clean() returns at once, with empty cleaned_data, for a form that
\* may be empty and has not changed
AttendanceFormSkipped(initial, initial_forms, i, row) ==
    /\ AttendanceEmptyPermitted(initial, initial_forms, i)
    /\ ~ AttendanceHasChanged(initial, i, row)

\* the field validation of one form: student is a required choice among
\* all Student rows, status a required choice of ATTENDANCE_STATUS_CHOICES
AttendanceFormIsValid(initial, initial_forms, i, row) ==
    \/ AttendanceFormSkipped(initial, initial_forms, i, row)
    \/ /\ StudentsByPk(row.student) # {}
       /\ row.status \in ATTENDANCE_STATUS_CHOICES

\* AttendanceForm.clean_status (forms.py 134-142): for an already marked
\* form it returns self.instance.status, and the instance is the fresh
\* Attendance() of a form built without one, whose status is the default
AttendanceCleanStatus(initial, i, row) ==
    IF AttendanceFormInitial(initial, i).marked THEN StatusDefault ELSE row.status

\* formset.is_valid()
AttendanceFormSetIsValid(initial, initial_forms, rows) ==
    \A i \in 1 .. Len(rows) : AttendanceFormIsValid(initial, initial_forms, i, rows[i])

\* The loop of save_attendance_ajax (views.py 606-634) from form i on.
\* form.instance is never a stored row (the formset builds each form
\* without an instance, so instance.pk is None): every form that is not
\* skipped is an INSERT, and a repeated (student, date, _class) raises
\* IntegrityError.
RECURSIVE AttendanceRowsWritten(_, _, _, _, _, _, _, _)
AttendanceRowsWritten(table, initial, initial_forms, rows, i, class, date, user) ==
    IF i > Len(rows) THEN [table |-> table, failed |-> FALSE]
    ELSE IF AttendanceFormSkipped(initial, initial_forms, i, rows[i])
    THEN AttendanceRowsWritten(table, initial, initial_forms, rows, i + 1,
                               class, date, user)
    ELSE IF ~ AttendanceUniqueOk(table, rows[i].student, date, class)
    THEN [table |-> table, failed |-> TRUE]
    ELSE AttendanceRowsWritten(
             AttendanceCreate(table, rows[i].student, date, class,
                              AttendanceCleanStatus(initial, i, rows[i]), user),
             initial, initial_forms, rows, i + 1, class, date, user)

\* What the batch holds, against the attendance it meets: a form that
\* fails validation; a form for a student not yet marked; a form that sends
\* the stored status of a marked student again, or another status.
Fact(kind, student, status) == [kind |-> kind, student |-> student, status |-> status]
AttendanceFactOf(initial, initial_forms, i, row, class, date) ==
    IF ~ AttendanceFormIsValid(initial, initial_forms, i, row)
      THEN {Fact("invalid", "-", "-")}
    ELSE IF StudentsByPk(row.student) = {} \/ row.status \notin ATTENDANCE_STATUS_CHOICES
      THEN {}
    ELSE IF AttendanceUniqueOk(attendances, row.student, date, class)
      THEN {Fact("new", row.student, row.status)}
    ELSE IF \E r \in attendances : /\ r.student = row.student /\ r.date = date
                                    /\ r._class = class /\ r.status = row.status
      THEN {Fact("same", row.student, row.status)}
    ELSE {Fact("differs", row.student, row.status)}
AttendanceFacts(class, date, initial_forms, rows) ==
    LET initial == AttendanceInitial(class, date)
    IN  UNION {AttendanceFactOf(initial, initial_forms, i, rows[i], class, date) :
                  i \in 1 .. Len(rows)}

\* save_attendance_ajax after the class lookup: the table and the response
SaveAttendanceAjaxResult_SkipsInvalid(user, class, date, initial_forms, rows) ==
    LET initial == AttendanceInitial(class, date)
        good == {i \in 1 .. Len(rows) :
                    /\ StudentsByPk(rows[i].student) # {}
                    /\ rows[i].status \in ATTENDANCE_STATUS_CHOICES
                    /\ AttendanceUniqueOk(attendances, rows[i].student, date, class)}
    IN  IF good = {}
        THEN [attendances |-> attendances, response |-> Resp(400, "validation_failed")]
        ELSE [attendances |->
                  AttendanceCreate(attendances, rows[Max(good)].student, date, class,
                                   rows[Max(good)].status, user),
              response |-> Resp(200, "attendance_saved")]
SaveAttendanceAjaxResult(user, class, date, initial_forms, rows) ==
    LET initial == AttendanceInitial(class, date)
        written == AttendanceRowsWritten(attendances, initial, initial_forms, rows, 1,
                                         class, date, user)
    IN  IF ~ AttendanceFormSetIsValid(initial, initial_forms, rows)
          THEN [attendances |-> attendances, response |-> Resp(400, "validation_failed")]
        ELSE IF written.failed
          \* transaction.atomic() undoes the rows written so far
          THEN [attendances |-> attendances, response |-> Resp(500, "database_error")]
        ELSE [attendances |-> written.table, response |-> Resp(200, "attendance_saved")]

save_attendance_ajax(user, class, date, initial_forms, rows) ==
    LET res == IF is_teacher(user)
               THEN SaveAttendanceAjaxResult(user, class, date, initial_forms, rows)
               ELSE [attendances |-> attendances, response |-> RedirectToLogin]
    IN  /\ request' = Req("save_attendance_ajax", user, class, date,
                          AttendanceFacts(class, date, initial_forms, rows))
        /\ attendances' = res.attendances
        /\ response' = res.response
        /\ UNCHANGED <<students, assignments, scores, submissions, questions, choices,
                      student_answers, now, inflight, directory>>

\* mark_attendance after the class lookup.  A form that is not skipped
\* reaches get_object_or_404(Student, pk=student_id) (line 550) with the
\* Student that the form field cleaned to: the lookup raises TypeError, which
\* nothing catches, and transaction.atomic() has nothing to undo.
MarkAttendanceResult_UpdatesStored(user, class, date, initial_forms, rows) ==
    LET hit == {r \in attendances : r.date = date /\ r._class = class /\
                   \E i \in 1 .. Len(rows) : rows[i].student = r.student
                                             /\ rows[i].status = r.status}
    IN  [attendances |-> {IF r \in hit THEN [r EXCEPT !.recorded_by = user] ELSE r :
                             r \in attendances},
         response |-> Resp(302, "attendance_saved")]
MarkAttendanceResult(user, class, date, initial_forms, rows) ==
    LET initial == AttendanceInitial(class, date)
        keep(status, message) ==
            [attendances |-> attendances, response |-> Resp(status, message)]
    IN  IF ~ AttendanceFormSetIsValid(initial, initial_forms, rows)
          THEN keep(200, "correct_the_errors")
        ELSE IF \E i \in 1 .. Len(rows) :
                    ~ AttendanceFormSkipped(initial, initial_forms, i, rows[i])
          THEN keep(500, "TypeError")
        ELSE keep(302, "attendance_saved")

mark_attendance(user, class, date, initial_forms, rows) ==
    LET res == IF is_teacher(user)
               THEN MarkAttendanceResult(user, class, date, initial_forms, rows)
               ELSE [attendances |-> attendances, response |-> RedirectToLogin]
    IN  /\ request' = Req("mark_attendance", user, class, date,
                          AttendanceFacts(class, date, initial_forms, rows))
        /\ attendances' = res.attendances
        /\ response' = res.response
        /\ UNCHANGED <<students, assignments, scores, submissions, questions, choices,
                      student_answers, now, inflight, directory>>

(***************************************************************************)
(* save_attendance_ajax served by several workers at once.  The statements *)
(* of one request run in order; between them the other worker may run.     *)
(* A statement outside transaction.atomic() sees the committed rows; the   *)
(* rows a transaction has inserted are its own until it commits.           *)
(***************************************************************************)
\* the rows an open transaction has inserted
OpenRows(w) == IF inflight[w].line = "atomic" THEN inflight[w].written ELSE {}
OthersOpenRows(w) == UNION {OpenRows(v) : v \in Workers \ {w}}

\* the worker's answer, kept with the request it answers
Responded(req, response_) ==
    [line |-> "responded", user |-> req.user, class |-> req.class, date |-> req.date,
     initial |-> req.initial, initial_forms |-> req.initial_forms, rows |-> req.rows,
     response |-> response_]

\* leaving "with transaction.atomic()" (views.py 604): a normal exit
\* commits the rows inserted, an exception rolls them back
AtomicExit_KeepsOnRaise(table, written, raised) == table \cup written
AtomicExit(table, written, raised) == IF raised THEN table ELSE table \cup written

\* Lines 590-603: the formset is built, which reads the stored attendance
\* into its initial list, and validated.
save_attendance_ajax_begin(w, user, class, date, initial_forms, rows) ==
    LET initial == AttendanceInitial(class, date)
        req == [line |-> "atomic", user |-> user, class |-> class, date |-> date,
                initial |-> initial, initial_forms |-> initial_forms, rows |-> rows,
                i |-> 1, written |-> {}]
    IN  /\ inflight[w] = Idle
        /\ is_teacher(user)
        /\ inflight' = [inflight EXCEPT ![w] =
              IF AttendanceFormSetIsValid(initial, initial_forms, rows)
              THEN req
              ELSE Responded(req, Resp(400, "validation_failed"))]
        /\ UNCHANGED <<tables, now, request, response, directory>>

\* the forms from the position reached on that the loop does not skip
FormsToWrite(req) ==
    {j \in req.i .. Len(req.rows) :
        ~ AttendanceFormSkipped(req.initial, req.initial_forms, j, req.rows[j])}

\* One turn of the loop that reaches Attendance.objects.create (lines
\* 606-634).  The INSERT of a (student, date, _class) that a committed row
\* or a row of this transaction holds raises IntegrityError; while the
\* other transaction holds it uncommitted the INSERT waits.  While the other
\* transaction has rows uncommitted the database may also give up on the
\* statement (lock timeout, deadlock victim): OperationalError.  Either
\* exception leaves the atomic block and is answered with 500.
save_attendance_ajax_create(w) ==
    LET req == inflight[w]
    IN  /\ req.line = "atomic"
        /\ FormsToWrite(req) # {}
        /\ LET j == CHOOSE k \in FormsToWrite(req) : \A l \in FormsToWrite(req) : k <= l
               row == req.rows[j]
               mine == attendances \cup req.written
               taken == mine \cup OthersOpenRows(w)
               inserted == AttendanceCreate(taken, row.student, req.date, req.class,
                               AttendanceCleanStatus(req.initial, j, row), req.user)
                           \ taken
           IN  \/ /\ ~ AttendanceUniqueOk(mine, row.student, req.date, req.class)
                  /\ attendances' = AtomicExit(attendances, req.written, TRUE)
                  /\ inflight' = [inflight EXCEPT ![w] =
                        Responded(req, Resp(500, "database_error"))]
               \/ /\ OthersOpenRows(w) # {}
                  /\ attendances' = AtomicExit(attendances, req.written, TRUE)
                  /\ inflight' = [inflight EXCEPT ![w] =
                        Responded(req, Resp(500, "database_error"))]
               \/ /\ AttendanceUniqueOk(taken, row.student, req.date, req.class)
                  /\ inflight' = [inflight EXCEPT ![w] =
                        [req EXCEPT !.i = j + 1, !.written = req.written \cup inserted]]
                  /\ UNCHANGED attendances
        /\ UNCHANGED <<students, assignments, scores, submissions, questions, choices,
                      student_answers, now, request, response, directory>>

\* The loop has run out of forms: the atomic block commits and the view
\* answers (line 636).
save_attendance_ajax_commit(w) ==
    LET req == inflight[w]
    IN  /\ req.line = "atomic"
        /\ FormsToWrite(req) = {}
        /\ attendances' = AtomicExit(attendances, req.written, FALSE)
        /\ inflight' = [inflight EXCEPT ![w] =
              Responded(req, Resp(200, "attendance_saved"))]
        /\ UNCHANGED <<students, assignments, scores, submissions, questions, choices,
                      student_answers, now, request, response, directory>>

\* time passes between requests
Tick ==
    /\ now < MaxTime
    /\ now' = now + 1
    /\ UNCHANGED <<tables, request, response, inflight, directory>>

(***************************************************************************)
(* create_mcq_questions (views.py 275-378)                                 *)
(***************************************************************************)
\* One posted question form with its choice formset: whether the question
\* fields are filled in, the points, the DELETE box, and what the choice
\* forms hold: forms that fail validation, exactly one choice marked
\* correct, none, or two.
QuestionFormsOver(points) ==
    {[filled |-> TRUE, points |-> p, DELETE |-> FALSE, choices |-> "one_correct"] :
        p \in points}
    \cup {[filled |-> TRUE, points |-> Max(points), DELETE |-> FALSE, choices |-> c] :
        c \in {"no_correct", "two_correct", "invalid"}}
    \cup {[filled |-> TRUE, points |-> Max(points), DELETE |-> TRUE,
           choices |-> "one_correct"],
          [filled |-> FALSE, points |-> 0, DELETE |-> FALSE, choices |-> "no_correct"]}

\* Question.objects.filter(assignment=assignment).order_by('id'), as a list
QuestionsOf(table, assignment_id) == {q \in table : q.assignment = assignment_id}
RECURSIVE QuestionsById(_)
QuestionsById(S) ==
    IF S = {} THEN <<>>
    ELSE LET first == CHOOSE q \in S : \A r \in S : q.id <= r.id
         IN  <<first>> \o QuestionsById(S \ {first})

\* The choice forms of a question form that come with cleaned_data and
\* without a ticked DELETE, as the is_correct box of each, in form order
ChoiceFormsOf(kind) ==
    CASE kind = "one_correct" -> <<TRUE, FALSE>>
      [] kind = "two_correct" -> <<TRUE, TRUE>>
      [] OTHER -> <<FALSE, FALSE>>

\* the choices of one question
ChoicesOf(table, question_id) == {c \in table : c.question = question_id}

\* QuestionForm.is_valid() inside the formset: a form past INITIAL_FORMS
\* that is left empty is valid, with empty cleaned_data
QuestionFormIsValid(form, initial_forms, i) ==
    form.filled \/ i > initial_forms

\* question_formset.is_valid() and all(choice_formset.is_valid()); a
\* formset does not validate a form whose DELETE box is ticked
QuestionFormSetIsValid(forms, initial_forms) ==
    /\ \A i \in 1 .. Len(forms) :
          forms[i].DELETE \/ QuestionFormIsValid(forms[i], initial_forms, i)
    /\ \A i \in 1 .. Len(forms) : forms[i].choices # "invalid"

\* The loop of lines 308-329 from form i on, over db = the Question and
\* the Choice table.  A ticked DELETE removes the question listed at the
\* form's position, if there is one, and with it its choices and the
\* answers given to it.  Any other
\* form is saved through question_form.save(commit=False): the formset built
\* the form without an instance, so this is a new Question row, and its
\* choice forms are saved as its choices.  Without exactly one correct
\* choice among them the loop raises, after these writes.
RECURSIVE McqQuestionsWritten(_, _, _, _, _, _)
McqQuestionsWritten(db, listed, forms, i, assignment_id, total_score) ==
    IF i > Len(forms)
      THEN [questions |-> db.questions, choices |-> db.choices,
            student_answers |-> db.student_answers,
            total_score |-> total_score, raised |-> FALSE]
    ELSE IF forms[i].DELETE
      THEN McqQuestionsWritten(
               IF i <= Len(listed)
               THEN [questions |-> db.questions \ {listed[i]},
                     choices |-> db.choices \ ChoicesOf(db.choices, listed[i].id),
                     student_answers |->
                         {sa \in db.student_answers : sa.question # listed[i].id}]
               ELSE db,
               listed, forms, i + 1, assignment_id, total_score)
    ELSE LET question == [id |-> NextId(db.questions), assignment |-> assignment_id,
                          points |-> forms[i].points]
             choice_forms == ChoiceFormsOf(forms[i].choices)
             saved == [questions |-> db.questions \cup {question},
                       choices |-> db.choices \cup
                           {[question |-> question.id, number |-> n,
                             is_correct |-> choice_forms[n]] :
                                n \in 1 .. Len(choice_forms)},
                       student_answers |-> db.student_answers]
             correct_choices ==
                 Cardinality({n \in 1 .. Len(choice_forms) : choice_forms[n]})
         IN  IF correct_choices # 1
               THEN [questions |-> saved.questions, choices |-> saved.choices,
                     student_answers |-> saved.student_answers,
                     total_score |-> total_score, raised |-> TRUE]
             ELSE McqQuestionsWritten(saved, listed, forms, i + 1, assignment_id,
                                      total_score + forms[i].points)

\* the POST branch after the assignment lookup, with the exception of lines
\* 337-339 leaving the tables as the loop left them
CreateMcqQuestionsResult_KeepsOnRaise(assignment, initial_forms, forms) ==
    LET listed == QuestionsById(QuestionsOf(questions, assignment.id))
        written == McqQuestionsWritten(
                       [questions |-> questions, choices |-> choices,
                        student_answers |-> student_answers],
                       listed, forms, 1, assignment.id, 0)
    IN  IF ~ QuestionFormSetIsValid(forms, initial_forms)
          THEN [questions |-> questions, choices |-> choices,
                student_answers |-> student_answers,
                assignments |-> assignments, response |-> Resp(200, "correct_the_errors")]
        ELSE IF written.raised
          THEN [questions |-> written.questions, choices |-> written.choices,
              student_answers |-> written.student_answers,
                assignments |-> assignments, response |-> Resp(200, "an_error_occurred")]
        ELSE [questions |-> written.questions, choices |-> written.choices,
              student_answers |-> written.student_answers,
              assignments |-> (assignments \ {assignment})
                  \cup {[assignment EXCEPT !.max_score = written.total_score]},
              response |-> Resp(302, "questions_saved")]

\* the POST branch after the assignment lookup: the tables and the response
CreateMcqQuestionsResult(assignment, initial_forms, forms) ==
    LET listed == QuestionsById(QuestionsOf(questions, assignment.id))
        written == McqQuestionsWritten(
                       [questions |-> questions, choices |-> choices,
                        student_answers |-> student_answers],
                       listed, forms, 1, assignment.id, 0)
        keep(message) ==
            [questions |-> questions, choices |-> choices,
             student_answers |-> student_answers, assignments |-> assignments,
             response |-> Resp(200, message)]
    IN  IF ~ QuestionFormSetIsValid(forms, initial_forms)
          THEN keep("correct_the_errors")
        ELSE IF written.raised
          \* caught by `except Exception`; transaction.atomic() has undone
          \* the questions and choices deleted and saved so far
          THEN keep("an_error_occurred")
        ELSE [questions |-> written.questions, choices |-> written.choices,
              student_answers |-> written.student_answers,
              assignments |-> (assignments \ {assignment})
                  \cup {[assignment EXCEPT !.max_score = written.total_score]},
              response |-> Resp(302, "questions_saved")]

\* what the request log keeps of a question-edit POST
McqFacts(assignment_id, forms) ==
    (IF QuestionsOf(questions, assignment_id) = {} THEN NoFacts
     ELSE {"questions_stored"})
    \cup (IF \E i \in 1 .. Len(forms) :
                ~ forms[i].DELETE /\ forms[i].choices \in {"no_correct", "two_correct"}
          THEN {"not_one_correct"} ELSE NoFacts)

create_mcq_questions(user, assignment_id, initial_forms, forms) ==
    LET owned == {a \in OwnedAssignments(assignment_id, user) :
                     a.assignment_type = "mcq"}
    IN  /\ request' = Req("create_mcq_questions", user, assignment_id, "-",
                          McqFacts(assignment_id, forms))
        /\ IF ~ is_teacher(user) \/ owned = {}
           THEN /\ response' = IF is_teacher(user) THEN Resp(404, "not_found")
                                ELSE RedirectToLogin
                /\ UNCHANGED <<questions, choices, student_answers, assignments>>
           ELSE LET res == CreateMcqQuestionsResult(CHOOSE a \in owned : TRUE,
                                                   initial_forms, forms)
                IN  /\ \A q \in res.questions : q.id <= MaxQuestionId
                    /\ questions' = res.questions
                    /\ choices' = res.choices
                    /\ student_answers' = res.student_answers
                    /\ assignments' = res.assignments
                    /\ response' = res.response
        /\ UNCHANGED <<students, scores, submissions, attendances, now, inflight, directory>>

(***************************************************************************)
(* submit_assignment (views.py 869-1051)                                   *)
(***************************************************************************)
\* get_object_or_404(Student, user=request.user)
StudentsOfUser(user) == {s \in students : s.user = user}

\* SubmissionForm(request.POST, request.FILES, instance=existing).save():
\* the existing row takes the posted text, or a row is created; the view
\* sets is_graded False either way
SubmissionSave(existing, assignment_id, student_id, text) ==
    IF existing = {}
    THEN submissions \cup {[id |-> NextId(submissions), assignment |-> assignment_id,
                            student |-> student_id, submission_text |-> text,
                            is_graded |-> FALSE]}
    ELSE {IF b \in existing
          THEN [b EXCEPT !.submission_text = text, !.is_graded = FALSE]
          ELSE b : b \in submissions}

\* the text/file branch on POST, lines 887-902, without the is_graded test
SubmitTextResult_IgnoresGraded(assignment, student, existing, form_valid, text) ==
    IF form_valid
    THEN [submissions |-> SubmissionSave(existing, assignment.id, student.id, text),
          student_answers |-> student_answers, scores |-> scores,
          response |-> Resp(302, "submission_saved")]
    ELSE [submissions |-> submissions, student_answers |-> student_answers,
          scores |-> scores, response |-> Resp(200, "submission_form_errors")]
\* the text/file branch on POST, lines 887-902
SubmitTextResult(assignment, student, existing, form_valid, text) ==
    LET keep(status, message) ==
            [submissions |-> submissions, student_answers |-> student_answers,
             scores |-> scores, response |-> Resp(status, message)]
    IN  IF \E b \in existing : b.is_graded
          THEN keep(302, "already_graded")
        ELSE IF form_valid
          THEN [submissions |-> SubmissionSave(existing, assignment.id, student.id, text),
                student_answers |-> student_answers, scores |-> scores,
                response |-> Resp(302, "submission_saved")]
        ELSE keep(200, "submission_form_errors")

\* One posted answer form names a question and the number of the chosen
\* choice among the choices of that question, 0 when none is chosen.
\* form.cleaned_data.get('chosen_choice'): the Choice row, or none
ChosenChoice(form) ==
    {c \in ChoicesOf(choices, form.question) : c.number = form.chosen_choice}

\* formset.is_valid(): validate_max with max_num=len(questions), a question
\* of the assignment in every form, and a chosen choice that exists
StudentAnswerFormSetIsValid(answers, listed) ==
    /\ Len(answers) <= Len(listed)
    /\ \A i \in 1 .. Len(answers) :
          /\ \E k \in 1 .. Len(listed) : listed[k].id = answers[i].question
          /\ answers[i].chosen_choice = 0 \/ ChosenChoice(answers[i]) # {}

\* lines 988-994: the full points of the question exactly when a choice is
\* chosen and it is marked correct
PointsAwarded_AnyChoice(question, chosen_choice) ==
    IF chosen_choice # {} THEN question.points ELSE 0
PointsAwarded(question, chosen_choice) ==
    IF chosen_choice # {} /\ (\A c \in chosen_choice : c.is_correct)
    THEN question.points ELSE 0

\* The loop of lines 983-1010 from form i on: a formset form carries no
\* stored instance, so every form creates a StudentAnswer row.
RECURSIVE McqAnswersWritten(_, _, _, _, _)
McqAnswersWritten(table, answers, i, submission_id, total_score_achieved) ==
    IF i > Len(answers)
      THEN [student_answers |-> table, total_score_achieved |-> total_score_achieved]
    ELSE LET question_obj == CHOOSE q \in questions : q.id = answers[i].question
             chosen_choice == ChosenChoice(answers[i])
             points_awarded == PointsAwarded(question_obj, chosen_choice)
         IN  McqAnswersWritten(
                 table \cup {[id |-> NextId(table), submission |-> submission_id,
                              question |-> question_obj.id,
                              chosen_choice |-> answers[i].chosen_choice,
                              is_correct |-> chosen_choice # {}
                                             /\ \A c \in chosen_choice : c.is_correct,
                              points_awarded |-> points_awarded]},
                 answers, i + 1, submission_id,
                 total_score_achieved + points_awarded)

\* the MCQ branch on POST, lines 926-1025
SubmitMcqResult(user, assignment, student, existing, answers) ==
    LET listed == QuestionsById(QuestionsOf(questions, assignment.id))
        keep(status, message) ==
            [submissions |-> submissions, student_answers |-> student_answers,
             scores |-> scores, response |-> Resp(status, message)]
        submission_id ==
            IF existing = {} THEN NextId(submissions)
            ELSE (CHOOSE b \in existing : TRUE).id
        graded ==
            IF existing = {}
            THEN submissions \cup {[id |-> submission_id, assignment |-> assignment.id,
                                    student |-> student.id,
                                    submission_text |-> "MCQ Submission",
                                    is_graded |-> TRUE]}
            ELSE {IF b \in existing THEN [b EXCEPT !.is_graded = TRUE] ELSE b :
                     b \in submissions}
        written == McqAnswersWritten(student_answers, answers, 1, submission_id, 0)
    IN  IF listed = <<>>
          THEN keep(302, "no_questions_yet")
        ELSE IF \E b \in existing : b.is_graded
          THEN keep(302, "already_graded")
        ELSE IF ~ StudentAnswerFormSetIsValid(answers, listed)
          THEN keep(200, "submission_form_errors")
        ELSE IF ~ ScoreFieldHolds(written.total_score_achieved)
          \* Score.objects.update_or_create raises decimal.InvalidOperation;
          \* nothing catches it: transaction.atomic() undoes the submission
          \* and the answers, and the request ends in an unhandled error
          THEN keep(500, "InvalidOperation")
        ELSE [submissions |-> graded,
              student_answers |-> written.student_answers,
              scores |-> ScoreUpdateOrCreate(scores, student.id, assignment.id,
                                             written.total_score_achieved, user),
              response |-> Resp(302, "mcq_graded")]

\* what the request log keeps of a submission: whether the student's
\* Submission was graded before, and whether the answers add up to a score
\* the Score column cannot hold
SubmitFacts(user, assignment_id, answers) ==
    (IF \E s \in StudentsOfUser(user) :
           \E b \in SubmissionsOf(assignment_id, s.id) : b.is_graded
     THEN {"graded_before"} ELSE NoFacts)
    \cup (IF \E a \in assignments :
                /\ a.id = assignment_id
                /\ a.assignment_type = "mcq"
                /\ QuestionsOf(questions, a.id) # {}
                /\ StudentAnswerFormSetIsValid(answers,
                                               QuestionsById(QuestionsOf(questions, a.id)))
                /\ ~ ScoreFieldHolds(
                        McqAnswersWritten(student_answers, answers, 1, 0, 0)
                            .total_score_achieved)
          THEN {"score_write_fails"} ELSE NoFacts)

submit_assignment(user, assignment_id, form_valid, text, answers) ==
    LET found == {a \in assignments : a.id = assignment_id}
        profile == StudentsOfUser(user)
    IN  /\ request' = Req("submit_assignment", user, assignment_id, "-",
                          SubmitFacts(user, assignment_id, answers))
        /\ IF ~ is_student(user) \/ found = {} \/ profile = {}
           THEN /\ response' = IF is_student(user) THEN Resp(404, "not_found")
                                ELSE RedirectToLogin
                /\ UNCHANGED <<submissions, student_answers, scores>>
           ELSE LET assignment == CHOOSE a \in found : TRUE
                    student == CHOOSE s \in profile : TRUE
                    existing == SubmissionsOf(assignment_id, student.id)
                    res == IF assignment.assignment_type = "text_file"
                           THEN SubmitTextResult(assignment, student, existing,
                                                 form_valid, text)
                           ELSE SubmitMcqResult(user, assignment, student, existing,
                                                answers)
                IN  IF assignment._class # student.current_class
                    THEN /\ response' = Resp(302, "not_for_your_class")
                         /\ UNCHANGED <<submissions, student_answers, scores>>
                    ELSE /\ submissions' = res.submissions
                         /\ student_answers' = res.student_answers
                         /\ scores' = res.scores
                         /\ response' = res.response
        /\ UNCHANGED <<students, assignments, attendances, questions, choices, now, inflight, directory>>

(***************************************************************************)
(* save_scores_ajax and the text/file branch of submit_assignment served   *)
(* by two workers at once.  Neither view opens a transaction on this path: *)
(* every query is committed as it runs, and the other worker may run       *)
(* between any two of them.                                                *)
(***************************************************************************)
\* a worker that can take a request
Free(w) == inflight[w].line \in {"idle", "responded"}

\* Lines 456-483: the lookups, the read of existing_submission (476) and
\* the checks before the first write.
save_scores_ajax_read(w, user, assignment_id, body) ==
    LET owned == OwnedAssignments(assignment_id, user)
        assignment == CHOOSE a \in owned : TRUE
        res == SaveScoresAjaxResult(user, assignment, body)
        req == [view |-> "save_scores_ajax", user |-> user, assignment |-> assignment_id,
                student |-> body.student_id, score_achieved |-> body.score_achieved,
                existing_submission |-> SubmissionsOf(assignment_id, body.student_id)]
    IN  /\ Free(w)
        /\ is_teacher(user) /\ owned # {}
        /\ inflight' = [inflight EXCEPT ![w] =
              IF res.response.status = 200
              THEN [line |-> "update_or_create"] @@ req
              ELSE [line |-> "responded", response |-> res.response] @@ req]
        /\ UNCHANGED <<tables, now, request, response, directory>>

\* Lines 485-492: Score.objects.update_or_create
save_scores_ajax_score(w) ==
    LET req == inflight[w]
    IN  /\ req.line = "update_or_create"
        /\ scores' = ScoreUpdateOrCreate(scores, req.student, req.assignment,
                                         req.score_achieved, req.user)
        /\ inflight' = [inflight EXCEPT ![w] = [req EXCEPT !.line = "flag"]]
        /\ UNCHANGED <<students, assignments, submissions, attendances, questions,
                      choices, student_answers, now, request, response, directory>>

\* Lines 493-497: existing_submission.save() writes every field of the
\* object read at line 476 to the row of its primary key, with is_graded
\* set; then the answer.
save_scores_ajax_flag(w) ==
    LET req == inflight[w]
    IN  /\ req.line = "flag"
        /\ submissions' =
              {IF \E e \in req.existing_submission : e.id = b.id
               THEN [(CHOOSE e \in req.existing_submission : e.id = b.id)
                        EXCEPT !.is_graded = TRUE]
               ELSE b : b \in submissions}
        /\ inflight' = [inflight EXCEPT ![w] =
              [req EXCEPT !.line = "responded"]
              @@ [response |-> Resp(200, "score_saved")]]
        /\ UNCHANGED <<students, assignments, scores, attendances, questions,
                      choices, student_answers, now, request, response, directory>>

\* Lines 871-890 for a POST to a text/file assignment: the lookups, the
\* read of existing_submission (881) and the is_graded test.
submit_assignment_read(w, user, assignment_id, text) ==
    LET found == {a \in assignments : a.id = assignment_id}
        profile == StudentsOfUser(user)
        student == CHOOSE st \in profile : TRUE
        existing == SubmissionsOf(assignment_id, student.id)
        req == [view |-> "submit_assignment", user |-> user, assignment |-> assignment_id,
                student |-> student.id, submission_text |-> text,
                existing_submission |-> existing]
    IN  /\ Free(w)
        /\ is_student(user) /\ profile # {}
        /\ \E a \in found : a.assignment_type = "text_file"
                            /\ a._class = student.current_class
        /\ inflight' = [inflight EXCEPT ![w] =
              IF \E b \in existing : b.is_graded
              THEN [line |-> "responded",
                    response |-> Resp(302, "already_graded")] @@ req
              ELSE [line |-> "save"] @@ req]
        /\ UNCHANGED <<tables, now, request, response, directory>>

\* Lines 892-899: the form was built on the object read at line 881, and
\* save() writes the posted text and is_graded False to the row of its
\* primary key; with no object read, a row is inserted, which
\* unique_together refuses when the pair has a row by now.
submit_assignment_save(w) ==
    LET req == inflight[w]
        answer(response_) == [inflight EXCEPT ![w] =
            [req EXCEPT !.line = "responded"] @@ [response |-> response_]]
    IN  /\ req.line = "save"
        /\ IF req.existing_submission # {}
           THEN /\ submissions' =
                      {IF \E e \in req.existing_submission : e.id = b.id
                       THEN [b EXCEPT !.submission_text = req.submission_text,
                                      !.is_graded = FALSE]
                       ELSE b : b \in submissions}
                /\ inflight' = answer(Resp(302, "submission_saved"))
           ELSE IF SubmissionsOf(req.assignment, req.student) # {}
           THEN /\ UNCHANGED submissions
                /\ inflight' = answer(Resp(500, "IntegrityError"))
           ELSE /\ submissions' = SubmissionSave({}, req.assignment, req.student,
                                                 req.submission_text)
                /\ inflight' = answer(Resp(302, "submission_saved"))
        /\ UNCHANGED <<students, assignments, scores, attendances, questions,
                      choices, student_answers, now, request, response, directory>>

(***************************************************************************)
(* submission_detail (views.py 249-272)                                    *)
(***************************************************************************)
submission_detail(user, submission_id) ==
    LET found == {b \in submissions : b.id = submission_id}
    IN  /\ request' = Req("submission_detail", user, submission_id, "-", NoFacts)
        /\ response' =
              IF ~ is_teacher(user) THEN RedirectToLogin
              ELSE IF found = {} THEN Resp(404, "not_found")
              ELSE LET submission == CHOOSE b \in found : TRUE
                       assignment == CHOOSE a \in assignments :
                                        a.id = submission.assignment
                   IN  IF assignment.recorded_by # user
                       THEN Resp(302, "not_authorized_submission")
                       ELSE Page("submission_detail", [submission |-> submission.id])
        /\ UNCHANGED <<tables, now, inflight, directory>>

(***************************************************************************)
(* Term averages: parent_dashboard (views.py 71-113), student_dashboard    *)
(* (801-866) and generate_report_card_pdf (664-734)                        *)
(***************************************************************************)
\* score.assignment
AssignmentOf(score) == CHOOSE a \in assignments : a.id = score.assignment

\* Score.objects.filter(student=..., assignment__term=...)
ScoresInTerm(student_id, term) ==
    {r \in scores : r.student = student_id /\ AssignmentOf(r).term = term}

\* aggregate(Sum('score_achieved'))['score_achieved__sum'] or 0
RECURSIVE SumScoreAchieved(_)
SumScoreAchieved(rows) ==
    IF rows = {} THEN 0
    ELSE LET r == CHOOSE x \in rows : TRUE
         IN  r.score_achieved + SumScoreAchieved(rows \ {r})

\* sum(score.assignment.max_score for score in rows)
SumMaxScore_EveryAssignment(rows) ==
    LET RECURSIVE Total(_)
        Total(S) == IF S = {} THEN 0
                    ELSE LET a == CHOOSE x \in S : TRUE
                         IN  a.max_score + Total(S \ {a})
    IN  Total({a \in assignments : \E r \in rows : AssignmentOf(r).term = a.term})
RECURSIVE SumMaxScore(_)
SumMaxScore(rows) ==
    IF rows = {} THEN 0
    ELSE LET r == CHOOSE x \in rows : TRUE
         IN  AssignmentOf(r).max_score + SumMaxScore(rows \ {r})

\* (total / max) * 100 as the exact fraction num / den; the division raises
\* when den is 0
PercentageOf(total, max) == [num |-> 100 * total, den |-> max]
Zero == [num |-> 0, den |-> 1]

\* the guarded average of lines 92-96, 852-856 and 714, before rounding
TermAverage_Unguarded(total, max) == PercentageOf(total, max)
TermAverage(total, max) == IF max > 0 THEN PercentageOf(total, max) ELSE Zero

\* round(average, 2) on a Decimal: the nearest hundredth, a tie going to the
\* even one; the result counts hundredths
Round2(average) ==
    LET n == 100 * average.num
        q == n \div average.den
        r == n % average.den
    IN  IF 2 * r < average.den THEN q
        ELSE IF 2 * r > average.den THEN q + 1
        ELSE IF q % 2 = 0 THEN q ELSE q + 1

\* lines 716-720: the remark of an overall average
Remark_InclusiveBelow(overall_average) ==
    IF overall_average.num <= 50 * overall_average.den
      THEN "Needs significant improvement."
    ELSE IF overall_average.num <= 70 * overall_average.den
      THEN "Satisfactory performance."
    ELSE "Good performance."
Remark(overall_average) ==
    IF overall_average.num < 50 * overall_average.den
      THEN "Needs significant improvement."
    ELSE IF overall_average.num < 70 * overall_average.den
      THEN "Satisfactory performance."
    ELSE "Good performance."

\* the average of one student over the current term as both dashboards
\* compute it
CurrentTermAverage(student_id) ==
    LET rows == ScoresInTerm(student_id, CHOOSE t \in CurrentTerms : TRUE)
    IN  TermAverage(SumScoreAchieved(rows), SumMaxScore(rows))

student_dashboard(user) ==
    LET profile == StudentsOfUser(user)
    IN  /\ request' = Req("student_dashboard", user, "-", "-", NoFacts)
        /\ response' =
              IF ~ is_student(user) THEN RedirectToLogin
              ELSE IF profile = {} THEN Resp(404, "not_found")
              ELSE IF CurrentTerms = {} THEN Page("student_dashboard", <<>>)
              ELSE LET student == CHOOSE s \in profile : TRUE
                       average == CurrentTermAverage(student.id)
                       assigned_assignments ==
                           {a \in assignments : /\ a._class = student.current_class
                                                /\ a.term \in CurrentTerms}
                   IN  \* line 832: assignment.due_date < timezone.localdate()
                       \* compares None with a date
                       IF \E a \in assigned_assignments : a.due_date = NoDate
                         THEN Resp(500, "TypeError")
                       ELSE IF average.den = 0 THEN Resp(500, "ZeroDivisionError")
                       ELSE Page("student_dashboard",
                                 [student |-> student.id,
                                  overall_average |-> Round2(average)])
        /\ UNCHANGED <<tables, now, inflight, directory>>

parent_dashboard(user) ==
    LET parent_children == {s \in students : s.parent = user}
        averages == [s \in parent_children |-> CurrentTermAverage(s.id)]
    IN  /\ request' = Req("parent_dashboard", user, "-", "-", NoFacts)
        /\ response' =
              IF ~ is_parent(user) THEN RedirectToLogin
              \* current_term is assigned inside the loop over the children
              \* and read after it
              ELSE IF parent_children = {} THEN Resp(500, "UnboundLocalError")
              ELSE IF CurrentTerms = {} THEN Page("parent_dashboard", <<>>)
              ELSE IF \E s \in parent_children : averages[s].den = 0
                THEN Resp(500, "ZeroDivisionError")
              ELSE Page("parent_dashboard",
                        [current_term_average |->
                            [id \in {s.id : s \in parent_children} |->
                                Round2(CurrentTermAverage(id))]])
        /\ UNCHANGED <<tables, now, inflight, directory>>

\* lines 676-720: the context of the report card of a student and a term
ReportCard(student_id, term_id) ==
    LET rows == ScoresInTerm(student_id, term_id)
        subjects_graded == {AssignmentOf(r).subject : r \in rows}
        subject_rows(name) == {r \in rows : AssignmentOf(r).subject = name}
        overall_average == TermAverage(SumScoreAchieved(rows), SumMaxScore(rows))
    IN  [student |-> student_id,
         average |-> [name \in subjects_graded |->
                         TermAverage(SumScoreAchieved(subject_rows(name)),
                                     SumMaxScore(subject_rows(name)))],
         exact_average |-> overall_average,
         overall_average |-> IF overall_average.den = 0 THEN 0
                             ELSE Round2(overall_average),
         remark |-> Remark(overall_average)]

generate_report_card_pdf(user, student_id, term_id) ==
    LET found == StudentsByPk(student_id)
        card == ReportCard(student_id, term_id)
    IN  /\ request' = Req("generate_report_card_pdf", user, student_id, term_id, NoFacts)
        /\ response' =
              IF ~ (is_parent(user) \/ is_teacher(user)) THEN RedirectToLogin
              ELSE IF found = {} \/ term_id \notin Terms THEN Resp(404, "not_found")
              ELSE IF is_parent(user) /\ (CHOOSE s \in found : TRUE).parent # user
                THEN Resp(302, "not_authorized_report_card")
              ELSE IF card.exact_average.den = 0
                       \/ \E name \in DOMAIN card.average : card.average[name].den = 0
                THEN Resp(500, "ZeroDivisionError")
              ELSE Page("report_card", card)
        /\ UNCHANGED <<tables, now, inflight, directory>>

(***************************************************************************)
(* Deleting: delete_assignment (views.py 221-232), delete_subject          *)
(* (776-787), delete_student (1107-1121), and what Model.delete() takes    *)
(* along through the on_delete of the foreign keys (models.py).            *)
(***************************************************************************)
\* the tables as a request finds them
Db ==
    [students |-> students, assignments |-> assignments, scores |-> scores,
     submissions |-> submissions, attendances |-> attendances,
     questions |-> questions, choices |-> choices,
     student_answers |-> student_answers, subjects |-> subjects,
     users |-> users, teachers |-> teachers]

\* Student rows deleted: Score.student, Attendance.student and
\* Submission.student are CASCADE, and so is a StudentAnswer's submission
StudentsDeleted(db, gone) ==
    LET handed_in == {b.id : b \in {c \in db.submissions : c.student \in gone}}
    IN  [db EXCEPT
           !.students = {st \in @ : st.id \notin gone},
           !.scores = {r \in @ : r.student \notin gone},
           !.attendances = {r \in @ : r.student \notin gone},
           !.submissions = {b \in @ : b.student \notin gone},
           !.student_answers = {x \in @ : x.submission \notin handed_in}]

\* Assignment rows deleted: Score.assignment and Submission.assignment are
\* CASCADE, and so are the questions with their choices and answers
AssignmentsDeleted(db, gone) ==
    LET handed_in == {b.id : b \in {c \in db.submissions : c.assignment \in gone}}
        asked == {q.id : q \in {p \in db.questions : p.assignment \in gone}}
    IN  [db EXCEPT
           !.assignments = {a \in @ : a.id \notin gone},
           !.scores = {r \in @ : r.assignment \notin gone},
           !.submissions = {b \in @ : b.assignment \notin gone},
           !.questions = {q \in @ : q.assignment \notin gone},
           !.choices = {c \in @ : c.question \notin asked},
           !.student_answers = {x \in @ : x.submission \notin handed_in
                                          /\ x.question \notin asked}]

\* A User row deleted: Student.user and Teacher.user are CASCADE;
\* Student.parent and the recorded_by of Assignment, Score and Attendance
\* are SET_NULL
UserDeleted(db, user) ==
    LET unset(table) == {IF r.recorded_by = user THEN [r EXCEPT !.recorded_by = NoUser]
                         ELSE r : r \in table}
    IN  [StudentsDeleted(db, {st.id : st \in {x \in db.students : x.user = user}})
           EXCEPT
           !.users = @ \ {user},
           !.teachers = {t \in @ : t.user # user},
           !.students = {IF st.parent = user THEN [st EXCEPT !.parent = NoUser]
                         ELSE st : st \in @},
           !.assignments = unset(@),
           !.scores = unset(@),
           !.attendances = unset(@)]

\* the tables as the request leaves them
Stored(db) ==
    /\ students' = db.students
    /\ assignments' = db.assignments
    /\ scores' = db.scores
    /\ submissions' = db.submissions
    /\ attendances' = db.attendances
    /\ questions' = db.questions
    /\ choices' = db.choices
    /\ student_answers' = db.student_answers
    /\ subjects' = db.subjects
    /\ users' = db.users
    /\ teachers' = db.teachers

delete_assignment(user, assignment_id) ==
    LET owned == OwnedAssignments(assignment_id, user)
    IN  /\ request' = Req("delete_assignment", user, assignment_id, "-", NoFacts)
        /\ IF ~ is_teacher(user) \/ owned = {}
           THEN /\ response' = IF is_teacher(user) THEN Resp(404, "not_found")
                                ELSE RedirectToLogin
                /\ Stored(Db)
           ELSE /\ response' = Resp(302, "assignment_deleted")
                /\ Stored(AssignmentsDeleted(Db, {assignment_id}))
        /\ UNCHANGED <<classes, now, inflight>>

\* get_object_or_404(Subject, pk=pk): any teacher, any subject;
\* Assignment.subject is CASCADE
DeleteSubjectResult(db, pk) ==
    [AssignmentsDeleted(db, {a.id : a \in {x \in db.assignments : x.subject = pk}})
        EXCEPT !.subjects = {sub \in @ : sub.id # pk}]
delete_subject(user, pk) ==
    /\ request' = Req("delete_subject", user, pk, "-", NoFacts)
    /\ IF ~ is_teacher(user) \/ \A sub \in subjects : sub.id # pk
       THEN /\ response' = IF is_teacher(user) THEN Resp(404, "not_found")
                            ELSE RedirectToLogin
            /\ Stored(Db)
       ELSE /\ response' = Resp(302, "subject_deleted")
            /\ Stored(DeleteSubjectResult(Db, pk))
    /\ UNCHANGED <<classes, now, inflight>>

\* get_object_or_404(Student, pk=pk): any teacher, any student.  With an
\* account linked, the account is deleted and the Student goes with it.
delete_student(user, pk) ==
    LET found == StudentsByPk(pk)
        student == CHOOSE st \in found : TRUE
    IN  /\ request' = Req("delete_student", user, pk, "-", NoFacts)
        /\ IF ~ is_teacher(user) \/ found = {}
           THEN /\ response' = IF is_teacher(user) THEN Resp(404, "not_found")
                                ELSE RedirectToLogin
                /\ Stored(Db)
           ELSE /\ response' = Resp(302, "student_deleted")
                /\ Stored(IF student.user # NoUser
                          THEN UserDeleted(Db, student.user)
                          ELSE StudentsDeleted(Db, {pk}))
        /\ UNCHANGED <<classes, now, inflight>>

(***************************************************************************)
(* Subject.save and Class.save (models.py 77-86, 115-124), reached from    *)
(* create_subject and update_subject (views.py 738-774) and from the admin *)
(* forms, which also take a slug.  A name is the list of its words, a slug *)
(* the list of the parts its hyphens separate: <<"math", "1">> is "math-1" *)
(* and <<"">> is the empty slug.                                           *)
(***************************************************************************)
\* django.utils.text.slugify: lower case, punctuation dropped, the words
\* joined by hyphens
slugify(name) ==
    LET lower(word) == CASE word = "Math" -> "math"
                         [] word = "English" -> "english"
                         [] word = "K1" -> "k1"
                         [] OTHER -> word
        kept == SelectSeq(name, LAMBDA word : word # "!")
    IN  IF kept = <<>> THEN <<"">> ELSE [i \in 1 .. Len(kept) |-> lower(kept[i])]

\* the while loop of save(): the candidate is base_slug, then base_slug-1,
\* base_slug-2, ... until no row but the saved one holds it
UniqueSlug_FirstCandidate(table, pk, base_slug, unique_slug, num) == unique_slug
RECURSIVE UniqueSlug(_, _, _, _, _)
UniqueSlug(table, pk, base_slug, unique_slug, num) ==
    IF \E r \in table : r.slug = unique_slug /\ r.id # pk
    THEN UniqueSlug(table, pk, base_slug, base_slug \o <<ToString(num)>>, num + 1)
    ELSE unique_slug

\* save() of the row with primary key pk ("" for a new row), holding this
\* name and this slug: the table and the outcome.  name and slug are
\* unique=True: the form, or else the database, refuses a value another row
\* holds.
SlugSaved(table, pk, name, slug) ==
    LET stored == {r \in table : r.id = pk}
        old == CHOOSE r \in stored : TRUE
        generated == \/ slug = <<"">>
                     \/ /\ stored # {}
                        /\ slug = slugify(old.name)
                        /\ name # old.name
        new_slug == IF generated
                    THEN UniqueSlug(table, pk, slugify(name), slugify(name), 1)
                    ELSE slug
        row == [id |-> IF stored = {} THEN ToString(Cardinality(table) + 1) ELSE pk,
                name |-> name, slug |-> new_slug]
    IN  IF \E r \in table : r.name = name /\ r.id # pk
          THEN [table |-> table, generated |-> generated, outcome |-> "name_taken"]
        ELSE IF \E r \in table : r.slug = new_slug /\ r.id # pk
          THEN [table |-> table, generated |-> generated, outcome |-> "slug_taken"]
        ELSE [table |-> (table \ stored) \cup {row}, generated |-> generated,
              outcome |-> "saved"]

Subject_save(pk, name, slug) ==
    LET res == SlugSaved(subjects, pk, name, slug)
    IN  /\ Cardinality(res.table) <= MaxSlugRows
        /\ subjects' = res.table
        /\ request' = Req("Subject.save", NoUser, pk, res.generated, NoFacts)
        /\ response' = Resp(200, res.outcome)
        /\ UNCHANGED <<tables, now, inflight, classes, users, teachers>>

Class_save(pk, name, slug) ==
    LET res == SlugSaved(classes, pk, name, slug)
    IN  /\ Cardinality(res.table) <= MaxSlugRows
        /\ classes' = res.table
        /\ request' = Req("Class.save", NoUser, pk, res.generated, NoFacts)
        /\ response' = Resp(200, res.outcome)
        /\ UNCHANGED <<tables, now, inflight, subjects, users, teachers>>

(***************************************************************************)
(* The initial database and the specifications.                            *)
(***************************************************************************)
\* assignment_type is 'text_file' for a1 and 'mcq' for a2; both are recorded
\* by t1 for class k1
AssignmentSeeds(m1, m2) ==
    {[id |-> "a1", _class |-> "k1", recorded_by |-> "t1",
      assignment_type |-> "text_file", max_score |-> m1,
      term |-> "term1", due_date |-> "d1", subject |-> "math"],
     [id |-> "a2", _class |-> "k1", recorded_by |-> "t1",
      assignment_type |-> "mcq", max_score |-> m2,
      term |-> "term1", due_date |-> "d1", subject |-> "english"]}
AssignmentIds == {"a1", "a2"}

\* both students are in class k1, with their own accounts and one parent
StudentSeeds ==
    {[id |-> "s1", user |-> "u1", current_class |-> "k1", parent |-> "p1"],
     [id |-> "s2", user |-> "u2", current_class |-> "k1", parent |-> "p1"]}
\* a name is the list of its words; a slug the list of its hyphen-separated parts
SubjectSeeds ==
    {[id |-> "math", name |-> <<"Math">>, slug |-> <<"math">>],
     [id |-> "english", name |-> <<"English">>, slug |-> <<"english">>]}
ClassSeeds == {[id |-> c, name |-> <<c>>, slug |-> <<c>>] : c \in Classes}

InitOver(student_rows, assignment_rows) ==
    /\ students = student_rows
    /\ subjects = SubjectSeeds
    /\ classes = ClassSeeds
    /\ users = Teachers \cup StudentUsers \cup Parents
    /\ teachers = {[user |-> t] : t \in Teachers}
    /\ assignments = assignment_rows
    /\ scores = {}
    /\ submissions = {}
    /\ attendances = {}
    /\ questions = {}
    /\ choices = {}
    /\ student_answers = {}
    /\ now = 0
    /\ request = Req("none", NoUser, "-", "-", NoFacts)
    /\ response = Resp(0, "none")
    /\ inflight = [w \in Workers |-> Idle]
InitWith(assignment_rows) == InitOver(StudentSeeds, assignment_rows)
Init == InitWith(AssignmentSeeds(MaxScoreVal, 0))

\* single score entry on the text/file assignment: the teacher saves scores
\* and edits the assignment while students hand in work
NextGrading ==
    \/ \E body \in AjaxBodies : save_scores_ajax("t1", "a1", body)
    \/ \E max_score \in MaxScoreInputs : update_assignment("t1", "a1", max_score)
    \* the teacher who did not record the assignment tries both
    \/ \E sid \in StudentIds :
          save_scores_ajax("t2", "a1",
                           [kind |-> "numeric", student_id |-> sid, score_achieved |-> 1])
    \/ update_assignment("t2", "a1", MaxScoreVal)
    \/ \E user \in StudentUsers, form_valid \in BOOLEAN :
          submit_assignment(user, "a1", form_valid, "essay1", <<>>)

SpecGrading == Init /\ [][NextGrading]_vars

\* sequences of at most n elements of S
SeqsUpTo(S, n) == UNION {[1 .. k -> S] : k \in 0 .. n}

\* batch score entry, on a database the owner fills through single saves
BatchScoreRows == SeqsUpTo(ScoreRowsOver({-1, 1, MaxScoreVal + 1}), MaxRows)
NextBatch ==
    \/ \E user \in Teachers, assignment_id \in AssignmentIds, rows \in BatchScoreRows :
          input_scores(user, assignment_id, rows)
    \/ \E sid \in StudentIds, v \in 0 .. MaxScoreVal :
          save_scores_ajax("t1", "a1",
              [kind |-> "numeric", student_id |-> sid, score_achieved |-> v])

SpecBatch == Init /\ [][NextBatch]_vars

\* bulk attendance for class k1 on one date: rows for either student, with
\* a status that is no choice and a row without a student among them
AttendanceRows ==
    SeqsUpTo(AttendanceRowsOver({"s1"}, {"P", "A", "X"})
                 \cup AttendanceRowsOver({"s2", ""}, {"P"}),
             MaxRows)
NextAttendance ==
    \/ \E rows \in AttendanceRows : \E initial_forms \in {0, Len(rows)} :
          save_attendance_ajax("t1", "k1", "d1", initial_forms, rows)
    \/ \E rows \in AttendanceRows : \E initial_forms \in {0, Len(rows)} :
          mark_attendance("t1", "k1", "d1", initial_forms, rows)

SpecAttendance == Init /\ [][NextAttendance]_vars

\* two teachers save the attendance of the class for the same day at once
\* (rows other than the default status, which a marked form would not send),
\* while the page view is posted as well
ParallelAttendanceRows ==
    {rows \in SeqsUpTo(AttendanceRowsOver(StudentIds \cup {GhostStudent}, {"A"}), MaxRows) :
        /\ rows # <<>>
        /\ \A i \in 1 .. Len(rows) : rows[i].student = GhostStudent => i = 2}
WorkerUser == [w \in Workers |-> IF w = "w1" THEN "t1" ELSE "t2"]
NextParallelAttendance ==
    \/ \E w \in Workers, rows \in ParallelAttendanceRows :
          save_attendance_ajax_begin(w, WorkerUser[w], "k1", "d1", Len(rows), rows)
    \/ \E w \in Workers : save_attendance_ajax_create(w)
    \/ \E w \in Workers : save_attendance_ajax_commit(w)
    \/ mark_attendance("t1", "k1", "d1", 1, <<[student |-> "s1", status |-> "A"]>>)
SpecParallelAttendance == Init /\ [][NextParallelAttendance]_vars

\* attendance marked again, by either teacher, as time passes
RemarkRows ==
    SeqsUpTo({[student |-> "s1", status |-> "P"], [student |-> "s1", status |-> "A"],
              [student |-> "s2", status |-> "P"]}, MaxRows)
NextRemark ==
    \/ \E user \in Teachers, rows \in RemarkRows :
          save_attendance_ajax(user, "k1", "d1", Len(rows), rows)
    \/ \E user \in Teachers, rows \in RemarkRows :
          mark_attendance(user, "k1", "d1", Len(rows), rows)
    \/ Tick

SpecRemark == Init /\ [][NextRemark]_vars

\* the teachers write, edit and delete the questions of the MCQ assignment
QuestionForms == SeqsUpTo(QuestionFormsOver({1, 2}), MaxRows)
NextMcq ==
    \/ \E forms \in QuestionForms : \E initial_forms \in {0, Len(forms)} :
          create_mcq_questions("t1", "a2", initial_forms, forms)
    \/ \E user \in Teachers, assignment_id \in AssignmentIds :
          create_mcq_questions(user, assignment_id, 0, <<>>)

SpecMcq == Init /\ [][NextMcq]_vars

\* The teacher writes the questions of the MCQ assignment once, worth a
\* point or as much as the score column cannot hold, and both students
\* answer them: one form per question in the listed order with a choice
\* picked or none, a form short, or a choice that does not exist.
SubmitQuestionForms ==
    SeqsUpTo({f \in QuestionFormsOver({1, ScoreFieldLimit}) :
                 f.choices = "one_correct" /\ ~ f.DELETE}, MaxRows) \ {<<>>}
AnswerSheets(listed) ==
    UNION {{[i \in 1 .. k |-> [question |-> listed[i].id, chosen_choice |-> f[i]]] :
               f \in [1 .. k -> 0 .. 2]} : k \in {Len(listed) - 1, Len(listed)} \ {-1}}
    \cup {[i \in 1 .. Len(listed) |-> [question |-> listed[i].id, chosen_choice |-> 3]]}
NextSubmit ==
    \/ \E forms \in SubmitQuestionForms :
          questions = {} /\ create_mcq_questions("t1", "a2", 0, forms)
    \/ \E user \in StudentUsers :
          \E answers \in AnswerSheets(QuestionsById(QuestionsOf(questions, "a2"))) :
             submit_assignment(user, "a2", TRUE, "essay1", answers)

SpecSubmit == Init /\ [][NextSubmit]_vars

\* every way a Score row is written, side by side: batch entry and single
\* saves by the teacher on either assignment, and MCQ submissions over one
\* question worth a point
ScoredQuestionForms ==
    {<<f>> : f \in {g \in QuestionFormsOver({1}) :
                        g.choices = "one_correct" /\ ~ g.DELETE}}
NextScores ==
    \/ \E assignment_id \in AssignmentIds :
          \E rows \in SeqsUpTo(ScoreRowsOver({1}), 1) :
             input_scores("t1", assignment_id, rows)
    \/ \E sid \in StudentIds, v \in {1, MaxScoreVal} :
          save_scores_ajax("t1", "a1",
              [kind |-> "numeric", student_id |-> sid, score_achieved |-> v])
    \/ save_scores_ajax("t1", "a2",
           [kind |-> "numeric", student_id |-> "s1", score_achieved |-> 1])
    \/ \E forms \in ScoredQuestionForms :
          questions = {} /\ create_mcq_questions("t1", "a2", 0, forms)
    \/ \E user \in StudentUsers, chosen_choice \in {1, 2} :
          \E q \in QuestionsOf(questions, "a2") :
             submit_assignment(user, "a2", TRUE, "essay1",
                 <<[question |-> q.id, chosen_choice |-> chosen_choice]>>)

SpecScores == Init /\ [][NextScores]_vars

\* a student hands in, and hands in again, the text assignment the teacher
\* grades and the MCQ assignment that grades itself, next to a classmate
NextResubmit ==
    \/ \E form_valid \in BOOLEAN, text \in Texts :
          submit_assignment("u1", "a1", form_valid, text, <<>>)
    \/ submit_assignment("u2", "a1", TRUE, "essay1", <<>>)
    \/ \E sid \in StudentIds :
          save_scores_ajax("t1", "a1",
              [kind |-> "numeric", student_id |-> sid, score_achieved |-> MaxScoreVal])
    \/ \E forms \in ScoredQuestionForms :
          questions = {} /\ create_mcq_questions("t1", "a2", 0, forms)
    \/ \E chosen_choice \in {1, 2} :
          \E q \in QuestionsOf(questions, "a2") :
             submit_assignment("u1", "a2", TRUE, "essay1",
                 <<[question |-> q.id, chosen_choice |-> chosen_choice]>>)

SpecResubmit == Init /\ [][NextResubmit]_vars

\* the teacher grades a student's text assignment on one worker while the
\* student hands it in, and hands it in again, on the other
NextParallelGrading ==
    \/ save_scores_ajax_read("w1", "t1", "a1",
           [kind |-> "numeric", student_id |-> "s1", score_achieved |-> 1])
    \/ save_scores_ajax_score("w1")
    \/ save_scores_ajax_flag("w1")
    \/ \E text \in Texts : submit_assignment_read("w2", "u1", "a1", text)
    \/ submit_assignment_save("w2")
SpecParallelGrading == Init /\ [][NextParallelGrading]_vars

\* The dashboards and the report card, read while the teacher grades one
\* student on the text assignment, changes its max_score, and the MCQ
\* assignment gets a question and an answer.  The scores reach half and
\* seven tenths of the largest max_score, and one point less.
ReportScoreInputs ==
    {0, 1, ScoreFieldLimit \div 2 - 1, ScoreFieldLimit \div 2,
     (7 * ScoreFieldLimit) \div 10 - 1, (7 * ScoreFieldLimit) \div 10}
NextReport ==
    \/ \E v \in ReportScoreInputs :
          save_scores_ajax("t1", "a1",
              [kind |-> "numeric", student_id |-> "s1", score_achieved |-> v])
    \/ \E max_score \in {0, ScoreFieldLimit} : update_assignment("t1", "a1", max_score)
    \/ \E forms \in ScoredQuestionForms :
          questions = {} /\ create_mcq_questions("t1", "a2", 0, forms)
    \/ \E chosen_choice \in {1, 2} :
          \E q \in QuestionsOf(questions, "a2") :
             submit_assignment("u1", "a2", TRUE, "essay1",
                 <<[question |-> q.id, chosen_choice |-> chosen_choice]>>)
    \/ \E user \in StudentUsers : student_dashboard(user)
    \/ \E user \in Parents : parent_dashboard(user)
    \/ \E user \in {"t1", "p1"}, student_id \in StudentIds, term_id \in Terms :
          generate_report_card_pdf(user, student_id, term_id)

SpecReport == Init /\ [][NextReport]_vars

\* Requests the role or the owner check turns away, between requests that
\* pass: users of every role call the views, the teachers address each
\* other's assignment and submissions, a parent asks for the report card
\* of another parent's child, and a student hands in work for an
\* assignment of another class.
OtherClassAssignment ==
    [id |-> "a3", _class |-> "k2", recorded_by |-> "t2",
     assignment_type |-> "text_file", max_score |-> MaxScoreVal,
     term |-> "term1", due_date |-> "d1", subject |-> "math"]
InitAuth == InitWith(AssignmentSeeds(MaxScoreVal, 0) \cup {OtherClassAssignment})
AuthUsers == {"t1", "t2", "u1", "p2"}
NextAuth ==
    \/ \E user \in AuthUsers, assignment_id \in {"a1", "a3"} :
          save_scores_ajax(user, assignment_id,
              [kind |-> "numeric", student_id |-> "s1", score_achieved |-> 1])
    \/ \E user \in AuthUsers : update_assignment(user, "a1", 1)
    \/ \E user \in AuthUsers : input_scores(user, "a1", <<>>)
    \/ \E user \in AuthUsers : create_mcq_questions(user, "a2", 0, <<>>)
    \/ \E user \in AuthUsers : save_attendance_ajax(user, "k1", "d1", 0, <<>>)
    \/ \E user \in AuthUsers : mark_attendance(user, "k1", "d1", 0, <<>>)
    \/ \E user \in AuthUsers, assignment_id \in {"a1", "a3"} :
          submit_assignment(user, assignment_id, TRUE, "essay1", <<>>)
    \/ \E user \in AuthUsers, submission_id \in 1 .. 2 :
          submission_detail(user, submission_id)
    \/ \E user \in AuthUsers : student_dashboard(user)
    \/ \E user \in AuthUsers \cup {"p1"} : parent_dashboard(user)
    \/ \E user \in AuthUsers \cup {"p1"} : generate_report_card_pdf(user, "s1", "term1")

SpecAuth == InitAuth /\ [][NextAuth]_vars

\* the dashboards, opened by every student and parent while the teacher
\* grades and takes students off the roll; the class has one more
\* assignment, given without a due date
UndatedAssignment ==
    [id |-> "a4", _class |-> "k1", recorded_by |-> "t1",
     assignment_type |-> "text_file", max_score |-> MaxScoreVal,
     term |-> "term1", due_date |-> NoDate, subject |-> "math"]
NextDashboards ==
    \/ \E user \in StudentUsers : student_dashboard(user)
    \/ \E user \in Parents : parent_dashboard(user)
    \/ \E sid \in StudentIds, assignment_id \in {"a1", "a4"} :
          save_scores_ajax("t1", assignment_id,
              [kind |-> "numeric", student_id |-> sid, score_achieved |-> 1])
    \/ \E st \in students : delete_student("t1", st.id)
SpecDashboards ==
    InitWith(AssignmentSeeds(MaxScoreVal, 0) \cup {UndatedAssignment})
    /\ [][NextDashboards]_vars

\* a term with six assignments of one class, whose max_score add up to an
\* odd number above ten thousand; the teacher grades a student close to the
\* top on each, one assignment after the other, and the report card is
\* printed as the scores come in
LongTermAssignments ==
    {[id |-> i, _class |-> "k1", recorded_by |-> "t1", assignment_type |-> "text_file",
      max_score |-> IF i = "a1" THEN 5 * ScoreFieldLimit + 1 ELSE ScoreFieldLimit,
      term |-> "term1", due_date |-> "d1", subject |-> IF i = "a1" THEN "math" ELSE "english"] :
        i \in {"a1", "b1", "b2", "b3", "b4", "b5"}}
InitLongTerm == InitWith(LongTermAssignments)
NextLongTerm ==
    \/ \E i \in 1 .. Cardinality(scores) + 1, v \in {5, ScoreFieldLimit - 1} :
          /\ i <= Cardinality(LongTermAssignments)
          /\ save_scores_ajax("t1", <<"a1", "b1", "b2", "b3", "b4", "b5">>[i],
                 [kind |-> "numeric", student_id |-> "s1", score_achieved |-> v])
    \/ generate_report_card_pdf("t1", "s1", "term1")
SpecLongTerm == InitLongTerm /\ [][NextLongTerm]_vars

\* subjects and classes are added and renamed, with names that slugify
\* alike; the teacher's forms send no slug (the stored one stays on the
\* row), the admin form sends any
SlugNames == {<<"math">>, <<"math", "1">>, <<"!">>}
NextSlugs ==
    \/ \E name \in SlugNames, slug \in {<<"">>, <<"math">>} :
          Subject_save("", name, slug)
    \/ \E r \in subjects, name \in SlugNames :
          \E slug \in {r.slug, <<"">>} : Subject_save(r.id, name, slug)
    \/ Class_save("", <<"K1">>, <<"">>)
    \/ \E r \in classes : Class_save(r.id, <<"K1">>, r.slug)
SpecSlugs == Init /\ [][NextSlugs]_vars

\* two teachers give assignments in the same subject to the same class,
\* grade them, and delete assignments, subjects and students
ColleagueAssignment ==
    [id |-> "a3", _class |-> "k1", recorded_by |-> "t2",
     assignment_type |-> "text_file", max_score |-> MaxScoreVal,
     term |-> "term1", due_date |-> "d1", subject |-> "math"]
InitColleague == InitWith(AssignmentSeeds(MaxScoreVal, 0) \cup {ColleagueAssignment})
NextColleague ==
    \/ \E user \in Teachers, assignment_id \in {"a1", "a3"}, sid \in StudentIds :
          save_scores_ajax(user, assignment_id,
              [kind |-> "numeric", student_id |-> sid, score_achieved |-> 1])
    \/ \E user \in Teachers, assignment_id \in {"a1", "a3"} :
          update_assignment(user, assignment_id, 1)
    \/ \E user \in Teachers, assignment_id \in {"a1", "a3"} :
          input_scores(user, assignment_id, <<>>)
    \/ \E user \in Teachers, assignment_id \in {"a1", "a3"} :
          delete_assignment(user, assignment_id)
    \/ \E user \in Teachers, sub \in subjects : delete_subject(user, sub.id)
    \/ \E user \in Teachers, st \in students : delete_student(user, st.id)
SpecColleague == InitColleague /\ [][NextColleague]_vars

\* accounts that serve twice, linked on the admin site (Student.user takes
\* any User): student s1 uses the account p1, which is also the parent
\* account of s2, and teacher t2 is enrolled as student s2.  The teachers
\* grade, mark attendance and delete students while their account exists.
InitShared ==
    InitOver({[id |-> "s1", user |-> "p1", current_class |-> "k1", parent |-> NoUser],
              [id |-> "s2", user |-> "t2", current_class |-> "k1", parent |-> "p1"]},
             AssignmentSeeds(MaxScoreVal, 0) \cup {ColleagueAssignment})
NextShared ==
    \/ \E sid \in StudentIds, g \in {<<"t1", "a1">>, <<"t2", "a3">>} :
          g[1] \in users /\ save_scores_ajax(g[1], g[2],
              [kind |-> "numeric", student_id |-> sid, score_achieved |-> 1])
    \/ \E rows \in SeqsUpTo(AttendanceRowsOver(StudentIds, {"A"}), 1) :
          save_attendance_ajax("t1", "k1", "d1", Len(rows), rows)
    \/ \E user \in Teachers \cap users, sid \in StudentIds : delete_student(user, sid)
SpecShared == InitShared /\ [][NextShared]_vars

\* student s2 has moved to class k2; the teacher of class k1 enters scores
\* and attendance for both students
InitMoved ==
    InitOver({IF st.id = "s2" THEN [st EXCEPT !.current_class = "k2"] ELSE st :
                 st \in StudentSeeds},
             AssignmentSeeds(MaxScoreVal, 0))
NextMoved ==
    \/ \E sid \in StudentIds, v \in {1, MaxScoreVal} :
          save_scores_ajax("t1", "a1",
              [kind |-> "numeric", student_id |-> sid, score_achieved |-> v])
    \/ \E rows \in SeqsUpTo(ScoreRowsOver({1}), 1) : input_scores("t1", "a1", rows)
    \/ \E rows \in SeqsUpTo(AttendanceRowsOver(StudentIds, {"P", "A"}), 1) :
          save_attendance_ajax("t1", "k1", "d1", Len(rows), rows)
    \/ \E rows \in SeqsUpTo(AttendanceRowsOver(StudentIds, {"A"}), 1) :
          mark_attendance("t1", "k1", "d1", Len(rows), rows)
SpecMoved == InitMoved /\ [][NextMoved]_vars

(***************************************************************************)
(* Claims.                                                                 *)
(***************************************************************************)
\* the assignment row with this id, as the request that was just served saw it
AssignmentById(assignment_id) == CHOOSE a \in assignments : a.id = assignment_id

\* the case of C1: a numeric score for an existing student, sent by the
\* teacher who recorded the non-MCQ assignment, while the student's
\* submission (if any) was not graded before the request
C1_Case ==
    /\ request'.view = "save_scores_ajax"
    /\ request'.payload.kind = "numeric"
    /\ request'.payload.student_id \in {s.id : s \in students}
    /\ \E a \in assignments :
          /\ a.id = request'.target
          /\ a.recorded_by = request'.user
          /\ a.assignment_type # "mcq"
    /\ ~ \E b \in submissions :
          /\ b.assignment = request'.target
          /\ b.student = request'.payload.student_id
          /\ b.is_graded

\* C1: in that case save_scores_ajax accepts the score s (answers 200 and
\* stores it) if and only if 0 <= s <= assignment.max_score, and a rejection
\* leaves every Score row and every Submission as it was.
C1_AcceptedIffInRange ==
    [][C1_Case =>
          LET s == request'.payload.score_achieved
              max_score == AssignmentById(request'.target).max_score
          IN  /\ (response'.status = 200) <=> (0 <= s /\ s <= max_score)
              /\ response'.status # 200 =>
                    scores' = scores /\ submissions' = submissions
      ]_vars

\* a batch score entry on a non-MCQ assignment, sent by its teacher
BatchCase ==
    /\ request'.view = "input_scores"
    /\ \E a \in assignments :
          /\ a.id = request'.target
          /\ a.recorded_by = request'.user
          /\ a.assignment_type # "mcq"

\* C2: a batch with a row whose score is negative or above max_score is
\* rejected with the validation error of the form, and the request creates
\* or changes no Score row.
C2_OutOfRangeBatchRejected ==
    [][BatchCase /\ "row_out_of_range" \in request'.facts =>
          /\ response' = Resp(200, "correct_the_errors")
          /\ scores' = scores
      ]_vars

\* C3: every Score row has 0 <= score_achieved <= max_score of its
\* assignment, in every reachable state.
C3_ScoresWithinMax ==
    \A r \in scores :
        /\ 0 <= r.score_achieved
        /\ r.score_achieved <= AssignmentById(r.assignment).max_score

\* C4: a batch in which some row fails validation (a blank score, or a
\* score out of range), at whatever position, creates or changes no Score row.
C4_InvalidRowNothingWritten ==
    [][/\ BatchCase
       /\ request'.facts \cap {"row_blank", "row_out_of_range"} # {}
       => scores' = scores
      ]_vars

\* C4 witness: a batch of at least two rows, one of them blank, has been
\* answered while Score rows were stored.
C4_Witness ==
    /\ request.view = "input_scores"
    /\ request.user = "t1"
    /\ request.target = "a1"
    /\ request.payload >= 2
    /\ "row_blank" \in request.facts
    /\ response.status # 0
    /\ scores # {}

\* C9: a batch row for a student who already has a Score, with another
\* value, updates that row in place: the request succeeds, the row carries
\* a new value and no row is added.
C9_BatchUpdatesInPlace ==
    [][/\ BatchCase
       /\ request'.facts = {"row_rescores"}
       => /\ response' = Resp(302, "scores_updated")
          /\ {r.id : r \in scores'} = {r.id : r \in scores}
          /\ \E r \in scores, q \in scores' :
                q.id = r.id /\ q.score_achieved # r.score_achieved
      ]_vars

\* a bulk attendance request, through either view
AttendanceCase == request'.view \in {"mark_attendance", "save_attendance_ajax"}

\* the Attendance rows of one student on the date and class of the requests
AttendanceOf(table, student) ==
    {r \in table : r.student = student /\ r.date = "d1" /\ r._class = "k1"}

\* C5: a bulk attendance request in which some form fails validation
\* creates or changes no Attendance row.
C5_InvalidFormNothingWritten ==
    [][AttendanceCase /\ Fact("invalid", "-", "-") \in request'.facts
          => attendances' = attendances
      ]_vars

\* C5 witness: save_attendance_ajax has refused a batch that held, next to
\* the invalid form, a valid form for a student without a row, and that
\* student still has no row.
C5_Witness ==
    /\ request.view = "save_attendance_ajax"
    /\ Fact("invalid", "-", "-") \in request.facts
    /\ response = Resp(400, "validation_failed")
    /\ \E f \in request.facts :
          f.kind = "new" /\ AttendanceOf(attendances, f.student) = {}

\* C6: after any sequence of attendance requests there is at most one
\* Attendance row for a (student, date, class).
C6_OneRowPerStudentDateClass ==
    \A r \in attendances, q \in attendances :
        (r.student = q.student /\ r.date = q.date /\ r._class = q._class) => r = q

\* C6 witness: a request that named a student who already had a row has
\* been answered, and the rows of both students are stored.
C6_Witness ==
    /\ request.view = "save_attendance_ajax"
    /\ \E f \in request.facts : f.kind \in {"same", "differs"}
    /\ \A sid \in StudentIds : AttendanceOf(attendances, sid) # {}

\* C7: a request that sends, for a (student, date, class) that has a row,
\* a status other than the stored one succeeds: the row is updated in place
\* to the submitted status, and no row is added.
C7_ChangedStatusUpdatesInPlace ==
    [][/\ AttendanceCase
       /\ Fact("invalid", "-", "-") \notin request'.facts
       => \A f \in request'.facts :
             f.kind = "differs" =>
                /\ response'.message = "attendance_saved"
                /\ {r.id : r \in attendances'} = {r.id : r \in attendances}
                /\ \A r \in AttendanceOf(attendances', f.student) : r.status = f.status
      ]_vars

\* C8: a request that sends the stored status of a (student, date, class)
\* again leaves that row as it is: status, recorded_by and timestamp, also
\* when another teacher sends it.
C8_SameStatusLeavesRow ==
    [][AttendanceCase
          => \A f \in request'.facts :
                f.kind = "same" =>
                   /\ AttendanceOf(attendances, f.student) # {}
                   /\ AttendanceOf(attendances', f.student)
                         = AttendanceOf(attendances, f.student)
      ]_vars

\* C8 witness: a teacher other than the one who recorded the row has sent
\* its status again, later than the row's timestamp, and the request has
\* been answered.
C8_Witness ==
    /\ request.view \in {"mark_attendance", "save_attendance_ajax"}
    /\ response.status # 0
    /\ \E f \in request.facts :
          /\ f.kind = "same"
          /\ \E r \in AttendanceOf(attendances, f.student) :
                /\ r.status = f.status
                /\ r.recorded_by # request.user
                /\ r.timestamp < now

\* the points of a set of Question rows, added up
RECURSIVE SumPoints(_)
SumPoints(S) ==
    IF S = {} THEN 0
    ELSE LET q == CHOOSE r \in S : TRUE IN q.points + SumPoints(S \ {q})

\* C10: after every successful POST to create_mcq_questions, a first save
\* or an edit with or without deletions, the points of the stored
\* questions of the assignment add up to its max_score.
C10_QuestionPointsSumToMaxScore ==
    [][/\ request'.view = "create_mcq_questions"
       /\ response' = Resp(302, "questions_saved")
       => \A a \in assignments' :
             a.id = request'.target =>
                SumPoints(QuestionsOf(questions', a.id)) = a.max_score
      ]_vars

\* C11: after every step each stored question has exactly one choice marked
\* correct, and a POST to create_mcq_questions in which a question form
\* without a ticked DELETE has no or two correct choices leaves the
\* questions, the choices and the assignments as they were.
CorrectChoices(question) == {c \in ChoicesOf(choices, question.id) : c.is_correct}
EveryQuestionHasOneCorrectChoice ==
    \A q \in questions : Cardinality(CorrectChoices(q)) = 1
RECURSIVE SumAwarded(_)
SumAwarded(S) ==
    IF S = {} THEN 0
    ELSE LET sa == CHOOSE x \in S : TRUE IN sa.points_awarded + SumAwarded(S \ {sa})
McqGraded == request.view = "submit_assignment" /\ response = Resp(302, "mcq_graded")
C12_McqScoreIsSumOfAwardedPoints ==
    [][McqGraded' =>
        /\ \A sa \in student_answers' \ student_answers :
              \E q \in questions : 
                 /\ q.id = sa.question
                 /\ sa.points_awarded =
                       IF \E c \in ChoicesOf(choices, q.id) :
                             c.number = sa.chosen_choice /\ c.is_correct
                       THEN q.points ELSE 0
        /\ \A s \in StudentsOfUser(request'.user) :
              \A b \in submissions' :
                 b.student = s.id /\ b.assignment = request'.target =>
                    \E r \in scores' :
                       /\ r.student = s.id
                       /\ r.assignment = request'.target
                       /\ r.score_achieved =
                             SumAwarded({sa \in student_answers' : sa.submission = b.id})
      ]_vars
\* a graded submission with a correct answer that earned points next to a
\* question left unanswered
C12_Witness ==
    /\ McqGraded
    /\ \E sa1, sa2 \in student_answers :
          /\ sa1.submission = sa2.submission
          /\ sa1.is_correct /\ sa1.points_awarded > 0
          /\ sa2.chosen_choice = 0 /\ sa2.points_awarded = 0
    /\ \E r \in scores : r.assignment = "a2" /\ r.score_achieved > 0

\* C13: after every step of batch entries, single saves and MCQ
\* submissions there is at most one Score row for a student and an
\* assignment, and a pair that had a row keeps that row: grading the pair
\* again writes into it and adds none.
C13_OneScorePerStudentAssignment ==
    [][/\ \A q1, q2 \in scores' :
             q1.student = q2.student /\ q1.assignment = q2.assignment => q1 = q2
       /\ \A r \in scores :
             \E q \in scores' :
                q.id = r.id /\ q.student = r.student /\ q.assignment = r.assignment
      ]_vars
\* a single save has just graded a student whose row is older than another
\* row of the table, next to the Score of an MCQ submission
C13_Witness ==
    /\ request.view = "save_scores_ajax"
    /\ response = Resp(200, "score_saved")
    /\ \E r, q \in scores :
          /\ r.student = request.payload.student_id
          /\ r.assignment = request.target
          /\ r.score_achieved = request.payload.score_achieved
          /\ q.id > r.id
    /\ \E r \in scores : r.assignment = "a2"

\* C14: a submit_assignment request of a student whose Submission for the
\* assignment is flagged graded leaves the submissions, the answers and
\* the scores as they were; a Submission flagged graded stays flagged
\* through every step; and no step leaves two Submissions of one student
\* for one assignment.
C14_GradedSubmissionIsFinal ==
    [][/\ (/\ request'.view = "submit_assignment"
           /\ "graded_before" \in request'.facts
           => UNCHANGED <<submissions, student_answers, scores>>)
       /\ \A b \in submissions :
             b.is_graded => \E c \in submissions' : c.id = b.id /\ c.is_graded
       /\ \A b1, b2 \in submissions' :
             b1.assignment = b2.assignment /\ b1.student = b2.student => b1 = b2
      ]_vars
\* a student whose text submission the teacher has graded and whose MCQ
\* submission is graded has sent the MCQ answers again and been refused
C14_Witness ==
    /\ request.view = "submit_assignment"
    /\ request.target = "a2"
    /\ request.facts = {"graded_before"}
    /\ response = Resp(302, "already_graded")
    /\ \E s \in StudentsOfUser(request.user) :
          \E b \in submissions :
             b.student = s.id /\ b.assignment = "a1" /\ b.is_graded

\* the max_score of the term's assignments a student has a Score on, added
\* up over the assignments, all subjects or one
RECURSIVE SumOfMaxScores(_)
SumOfMaxScores(S) ==
    IF S = {} THEN 0
    ELSE LET a == CHOOSE x \in S : TRUE IN a.max_score + SumOfMaxScores(S \ {a})
ScoredAssignments(student_id, term) ==
    {a \in assignments :
        a.term = term /\ \E r \in scores : r.student = student_id /\ r.assignment = a.id}
ReportCardShown == request.view = "generate_report_card_pdf" /\ response.status = 200

\* C15: a student without a Score in the term, or whose scored assignments
\* have max_score 0 in total, gets the average 0 on the student dashboard,
\* on the parent dashboard and on the report card, overall and per
\* subject, and the page is rendered: no request ends in a division error.
C15_NothingToAverageGivesZero ==
    [][/\ request'.view = "student_dashboard" =>
             \A s \in StudentsOfUser(request'.user) :
                SumOfMaxScores(ScoredAssignments(s.id, "term1")) = 0 =>
                   response' = Page("student_dashboard",
                                    [student |-> s.id, overall_average |-> 0])
       /\ request'.view = "parent_dashboard" =>
             \A s \in students :
                /\ s.parent = request'.user
                /\ SumOfMaxScores(ScoredAssignments(s.id, "term1")) = 0
                => /\ response'.status = 200
                   /\ response'.context.current_term_average[s.id] = 0
       /\ request'.view = "generate_report_card_pdf" /\ response'.status \notin {302, 404} =>
             /\ response'.status = 200
             /\ SumOfMaxScores(ScoredAssignments(request'.target, request'.payload)) = 0 =>
                   /\ response'.context.overall_average = 0
                   /\ response'.context.exact_average = Zero
             /\ \A name \in DOMAIN response'.context.average :
                   SumOfMaxScores({a \in ScoredAssignments(request'.target,
                                                           request'.payload) :
                                      a.subject = name}) = 0
                   => response'.context.average[name] = Zero
      ]_vars
\* the report card of a student whose only Score is on an assignment with
\* max_score 0 shows the average 0
C15_Witness ==
    /\ ReportCardShown
    /\ ScoredAssignments(request.target, request.payload) # {}
    /\ SumOfMaxScores(ScoredAssignments(request.target, request.payload)) = 0
    /\ response.context.overall_average = 0

\* the exact fraction `average` is 100 * total / max
IsPercentage(average, total, max) ==
    average.den # 0 /\ average.num * max = 100 * total * average.den
\* `shown`, counting hundredths, is the hundredth nearest to `average`, the
\* even one of two that are equally near
IsNearestHundredth(shown, average) ==
    LET off == shown * average.den - 100 * average.num
    IN  /\ 2 * off <= average.den /\ -2 * off <= average.den
        /\ (2 * off = average.den \/ -2 * off = average.den) => shown % 2 = 0
TermAssignments(term) == {a \in assignments : a.term = term}
ScoresOn(student_id, S) ==
    SumScoreAchieved({r \in scores :
        r.student = student_id /\ \E a \in S : a.id = r.assignment})

\* C16: the percentage average of a student over a term is 100 times the
\* sum of the student's scores on the term's assignments divided by the
\* sum of max_score over all assignments of the term, 0 where that sum is
\* 0; the average per subject of the report card is that ratio over the
\* assignments of the subject.
C16_AverageOverAllAssignments ==
    [][/\ request'.view = "student_dashboard" /\ response'.status = 200 =>
             \A s \in StudentsOfUser(request'.user) :
                LET S == TermAssignments("term1")
                    shown == response'.context.overall_average
                IN  \/ SumOfMaxScores(S) = 0 /\ shown = 0
                    \/ /\ SumOfMaxScores(S) > 0
                       /\ IsNearestHundredth(
                              shown,
                              [num |-> 100 * ScoresOn(s.id, S), den |-> SumOfMaxScores(S)])
       /\ request'.view = "generate_report_card_pdf" /\ response'.status = 200 =>
             LET S == TermAssignments(request'.payload)
                 card == response'.context
             IN  /\ \/ SumOfMaxScores(S) = 0 /\ card.exact_average = Zero
                    \/ /\ SumOfMaxScores(S) > 0
                       /\ IsPercentage(card.exact_average, ScoresOn(card.student, S),
                                       SumOfMaxScores(S))
                 /\ \A name \in DOMAIN card.average :
                       LET T == {a \in S : a.subject = name}
                       IN  \/ SumOfMaxScores(T) = 0 /\ card.average[name] = Zero
                           \/ /\ SumOfMaxScores(T) > 0
                              /\ IsPercentage(card.average[name],
                                              ScoresOn(card.student, T), SumOfMaxScores(T))
      ]_vars

\* C16, amended: the sum of max_score runs over the term's assignments on
\* which the student has a Score.  The dashboards and the report card show
\* that ratio rounded to the nearest hundredth; the report card keeps the
\* exact ratio for the remark and for each subject.
C16_AverageOverScoredAssignments ==
    [][/\ request'.view = "student_dashboard" /\ response'.status = 200 =>
             \A s \in StudentsOfUser(request'.user) :
                LET S == ScoredAssignments(s.id, "term1")
                IN  \/ SumOfMaxScores(S) = 0 /\ response'.context.overall_average = 0
                    \/ /\ SumOfMaxScores(S) > 0
                       /\ IsNearestHundredth(
                              response'.context.overall_average,
                              [num |-> 100 * ScoresOn(s.id, S), den |-> SumOfMaxScores(S)])
       /\ request'.view = "parent_dashboard" /\ response'.status = 200 =>
             \A s \in students :
                s.parent = request'.user =>
                   LET S == ScoredAssignments(s.id, "term1")
                       shown == response'.context.current_term_average[s.id]
                   IN  \/ SumOfMaxScores(S) = 0 /\ shown = 0
                       \/ /\ SumOfMaxScores(S) > 0
                          /\ IsNearestHundredth(
                                 shown,
                                 [num |-> 100 * ScoresOn(s.id, S),
                                  den |-> SumOfMaxScores(S)])
       /\ request'.view = "generate_report_card_pdf" /\ response'.status = 200 =>
             LET card == response'.context
                 S == ScoredAssignments(card.student, request'.payload)
             IN  /\ \/ SumOfMaxScores(S) = 0 /\ card.exact_average = Zero
                    \/ /\ SumOfMaxScores(S) > 0
                       /\ IsPercentage(card.exact_average, ScoresOn(card.student, S),
                                       SumOfMaxScores(S))
                 /\ IsNearestHundredth(card.overall_average, card.exact_average)
                 /\ DOMAIN card.average = {a.subject : a \in S}
                 /\ \A name \in DOMAIN card.average :
                       LET T == {a \in S : a.subject = name}
                       IN  \/ SumOfMaxScores(T) = 0 /\ card.average[name] = Zero
                           \/ /\ SumOfMaxScores(T) > 0
                              /\ IsPercentage(card.average[name],
                                              ScoresOn(card.student, T), SumOfMaxScores(T))
      ]_vars
\* a report card of a student with a Score above 0 on one assignment of
\* the term and none on another that has a max_score
C16_Witness ==
    /\ ReportCardShown
    /\ LET S == ScoredAssignments(request.target, request.payload)
       IN  /\ S # {}
           /\ SumOfMaxScores(S) > 0
           /\ SumOfMaxScores(TermAssignments(request.payload) \ S) > 0
    /\ response.context.exact_average.num > 0

\* C17: on every report card the remark follows the overall average: below
\* 50 "Needs significant improvement.", from 50 to below 70 "Satisfactory
\* performance.", from 70 on "Good performance."
C17_RemarkThresholds ==
    [][request'.view = "generate_report_card_pdf" /\ response'.status = 200 =>
          LET average == response'.context.exact_average
              remark == response'.context.remark
          IN  /\ average.num < 50 * average.den =>
                    remark = "Needs significant improvement."
              /\ 50 * average.den <= average.num /\ average.num < 70 * average.den =>
                    remark = "Satisfactory performance."
              /\ 70 * average.den <= average.num => remark = "Good performance."
      ]_vars
\* a report card with an overall average of exactly 50
C17_Witness ==
    /\ ReportCardShown
    /\ response.context.exact_average.num = 50 * response.context.exact_average.den
    /\ response.context.remark = "Satisfactory performance."

\* the request just served was turned away by an authorization check: the
\* user's role is not the one the view is for, a teacher addresses an
\* assignment or a submission another teacher recorded, a parent asks for
\* the report card of a student who is not their child, or a student
\* submits to an assignment of a class that is not theirs
TeacherViews ==
    {"save_scores_ajax", "update_assignment", "input_scores", "create_mcq_questions",
     "save_attendance_ajax", "mark_attendance", "submission_detail"}
StudentViews == {"submit_assignment", "student_dashboard"}
AuthorizationFails ==
    LET view == request'.view
        user == request'.user
        target == request'.target
    IN  \/ view \in TeacherViews /\ ~ is_teacher(user)
        \/ view \in StudentViews /\ ~ is_student(user)
        \/ view = "parent_dashboard" /\ ~ is_parent(user)
        \/ view = "generate_report_card_pdf" /\ ~ (is_parent(user) \/ is_teacher(user))
        \/ /\ view \in TeacherViews \ {"submission_detail"}
           /\ is_teacher(user)
           /\ \E a \in assignments : a.id = target /\ a.recorded_by # user
        \/ /\ view = "submission_detail"
           /\ is_teacher(user)
           /\ \E b \in submissions :
                 b.id = target /\ AssignmentById(b.assignment).recorded_by # user
        \/ /\ view = "generate_report_card_pdf"
           /\ is_parent(user)
           /\ \E s \in students : s.id = target /\ s.parent # user
        \/ /\ view = "submit_assignment"
           /\ \E s \in StudentsOfUser(user), a \in assignments :
                 a.id = target /\ a._class # s.current_class

\* C18: every request that fails an authorization check is answered with a
\* redirect that carries a message, never with an error response, and it
\* leaves every table as it was.
C18_AuthorizationFailureRedirects ==
    [][AuthorizationFails =>
          /\ response'.status = 302
          /\ response' # RedirectToLogin
          /\ UNCHANGED tables
      ]_vars

\* the responses that stand for an exception no handler of the view
\* catches: the request ends in the framework's server error
UnhandledExceptions ==
    {"RelatedObjectDoesNotExist", "TypeError", "InvalidOperation",
     "ZeroDivisionError", "UnboundLocalError"}

\* C19: when a write fails inside a batch after earlier rows of the batch
\* were written (the Score of an MCQ submission after its Submission and
\* answers, a question without exactly one correct choice after the
\* question was saved), every table is as before the request and the
\* response reports the failure: it is not an unhandled exception.
C19_FailedBatchRollsBackAndReports ==
    [][\/ /\ request'.view = "submit_assignment"
          /\ request'.facts = {"score_write_fails"}
       \/ /\ request'.view = "create_mcq_questions"
          /\ "not_one_correct" \in request'.facts
          /\ response'.message \notin {"correct_the_errors", "not_found", "login"}
       => /\ UNCHANGED tables
          /\ response'.message \notin UnhandledExceptions
      ]_vars

\* C20: a POST to input_scores or to save_scores_ajax by the teacher who
\* recorded an MCQ assignment is turned away, and every Score row is as it
\* was before the request.
C20_McqScoresNotEnteredByTeacher ==
    [][/\ request'.view \in {"input_scores", "save_scores_ajax"}
       /\ \E a \in assignments :
             /\ a.id = request'.target
             /\ a.recorded_by = request'.user
             /\ a.assignment_type = "mcq"
       => /\ scores' = scores
          /\ response' = IF request'.view = "input_scores"
                         THEN Resp(302, "mcq_scores_not_editable")
                         ELSE Resp(400, "mcq_graded_automatically")
      ]_vars
\* the teacher's single save for a student whose MCQ submission has been
\* graded is turned away
C20_Witness ==
    /\ request.view = "save_scores_ajax"
    /\ request.target = "a2"
    /\ response = Resp(400, "mcq_graded_automatically")
    /\ \E r \in scores :
          r.assignment = "a2" /\ r.student = request.payload.student_id

\* the forms of an answered request that the loop was to write
WantedForms(req) ==
    {j \in 1 .. Len(req.rows) :
        ~ AttendanceFormSkipped(req.initial, req.initial_forms, j, req.rows[j])}
\* every such form has its row, recorded by the request's teacher
AllApplied(req) ==
    \A j \in WantedForms(req) : \E r \in attendances :
        /\ r.student = req.rows[j].student
        /\ r.date = req.date
        /\ r._class = req.class
        /\ r.status = AttendanceCleanStatus(req.initial, j, req.rows[j])
        /\ r.recorded_by = req.user
NoneApplied(req) == \A r \in attendances : r.recorded_by # req.user
BothAnswered == \A w \in Workers : inflight[w].line = "responded"

\* C21: when two bulk attendance requests for the same class and date are
\* served at once, in whatever order their statements interleave, the
\* attendance table never holds two rows for one (student, date, class), and
\* once both are answered each request has all its rows stored (and answered
\* success) or none of them (and answered an error).
C21_ParallelBatchesAllOrNothing ==
    /\ \A r1, r2 \in attendances :
          (r1.student = r2.student /\ r1.date = r2.date /\ r1._class = r2._class)
          => r1 = r2
    /\ BothAnswered =>
          \A w \in Workers :
             IF inflight[w].response.status = 200
             THEN AllApplied(inflight[w])
             ELSE NoneApplied(inflight[w])
\* the two requests overlapped, both wrote a row, and the one that then met
\* the other's committed row was rolled back: its first row is gone
C21_Witness ==
    /\ BothAnswered
    /\ inflight["w1"].response = Resp(200, "attendance_saved")
    /\ inflight["w2"].response = Resp(500, "database_error")
    /\ inflight["w2"].initial = inflight["w1"].initial
    /\ Len(inflight["w2"].rows) = 2
    /\ inflight["w2"].rows[1].student # inflight["w2"].rows[2].student
    /\ inflight["w2"].rows[2].student = inflight["w1"].rows[1].student
    /\ \E r \in attendances : r.recorded_by = "t1"

\* C22: while save_scores_ajax for (assignment, student) and the student's
\* re-submission of the same text/file assignment are served at once, no
\* step takes the graded flag off a Submission or changes the text of a
\* Submission that is flagged graded.
C22_GradedSubmissionStaysGraded ==
    [][\A b \in submissions : b.is_graded =>
          \E c \in submissions' :
             /\ c.id = b.id
             /\ c.is_graded
             /\ c.submission_text = b.submission_text]_vars

\* C23: the recorded_by of every Score row is empty or a user with the
\* teacher role, whichever view wrote the row, MCQ grading included.
C23_ScoreRecordedByTeacher ==
    \A r \in scores : r.recorded_by = NoUser \/ is_teacher(r.recorded_by)

\* C24: a Score row that input_scores or save_scores_ajax creates is of a
\* student whose current class is the assignment's class, and an Attendance
\* row that mark_attendance or save_attendance_ajax creates is of a student
\* whose current class is the class marked.
C24_RowsOnlyForStudentsOfTheClass ==
    [][/\ request'.view \in {"input_scores", "save_scores_ajax"} =>
             \A r \in scores' :
                (\A old \in scores : old.id # r.id) =>
                   \E st \in students, a \in assignments :
                      /\ st.id = r.student /\ a.id = r.assignment
                      /\ st.current_class = a._class
       /\ request'.view \in {"mark_attendance", "save_attendance_ajax"} =>
             \A r \in attendances' :
                (\A old \in attendances : old.id # r.id) =>
                   \E st \in students :
                      st.id = r.student /\ st.current_class = r._class
      ]_vars

\* C25: whenever a Score and a Submission exist for the same (assignment,
\* student), the Submission is flagged graded.
C25_ScoredSubmissionIsGraded ==
    \A r \in scores, b \in submissions :
        (r.assignment = b.assignment /\ r.student = b.student) => b.is_graded

\* C26: no request by a teacher deletes or changes an Assignment that
\* another teacher recorded, or removes or changes a Score of such an
\* assignment; this holds for update_assignment, delete_assignment,
\* input_scores, save_scores_ajax, delete_subject and delete_student.
C26_OtherTeachersWorkUntouched ==
    [][is_teacher(request'.user) =>
          \A a \in assignments :
             (is_teacher(a.recorded_by) /\ a.recorded_by # request'.user) =>
                /\ a \in assignments'
                /\ {r \in scores' : r.assignment = a.id}
                      = {r \in scores : r.assignment = a.id}]_vars

\* C27: after any Subject save or Class save, with or without a slug
\* supplied, no two rows of the table share a slug; and a save whose slug
\* comes from the numeric-suffix search is never refused for its slug, the
\* search ending on a slug no other row holds.
C27_SlugsStayUnique ==
    [][/\ \A r1, r2 \in subjects' : r1.slug = r2.slug => r1.id = r2.id
       /\ \A r1, r2 \in classes' : r1.slug = r2.slug => r1.id = r2.id
       /\ (request'.view \in {"Subject.save", "Class.save"} /\ request'.payload)
             => response'.message # "slug_taken"
      ]_vars
\* a rename made the search pass two taken candidates: "math-1" was held by
\* one row and "math-1-1" is what the renamed row got
C27_Witness ==
    /\ request.view = "Subject.save"
    /\ request.payload
    /\ response.message = "saved"
    /\ \E r1, r2 \in subjects :
          /\ r1.id = request.target
          /\ r1.slug = <<"math", "1", "1">>
          /\ r2.slug = <<"math", "1">>

\* C28: on a report card the remark agrees with the overall average shown,
\* which is the average rounded to two decimals (counted here in
\* hundredths): 50.00 or more shown never carries "Needs significant
\* improvement.", 70.00 or more shown never carries "Satisfactory
\* performance.".
C28_RemarkAgreesWithShownAverage ==
    [][request'.view = "generate_report_card_pdf" /\ response'.status = 200 =>
          LET shown == response'.context.overall_average
              remark == response'.context.remark
          IN  /\ shown >= 5000 => remark # "Needs significant improvement."
              /\ shown >= 7000 => remark \notin {"Needs significant improvement.",
                                                 "Satisfactory performance."}
      ]_vars

\* C29: student_dashboard, opened by a student, and parent_dashboard,
\* opened by a parent, answer with the page in every state of the database:
\* no request ends in an unhandled exception.
C29_DashboardsAlwaysRender ==
    [][/\ (request'.view = "student_dashboard" /\ StudentsOfUser(request'.user) # {})
             => response'.status = 200
       /\ (request'.view = "parent_dashboard" /\ is_parent(request'.user))
             => response'.status = 200
      ]_vars

\* C30: a delete_student request that finds student S removes S, the
\* account linked to S, and the Score, Attendance and Submission rows of S,
\* and nothing else: every other Student row stays as it was, parent link
\* and class included, and so do the Teacher rows and the other accounts.
C30_DeleteStudentRemovesOnlyTheStudent ==
    [][request'.view = "delete_student" /\ response'.message = "student_deleted" =>
          \E st \in students :
             /\ st.id = request'.target
             /\ students' = students \ {st}
             /\ users' = users \ {st.user}
             /\ scores' = {r \in scores : r.student # st.id}
             /\ attendances' = {r \in attendances : r.student # st.id}
             /\ submissions' = {b \in submissions : b.student # st.id}
             /\ teachers' = teachers
      ]_vars

====
